---- MODULE Spec2Model ----
(***************************************************************************)
(* A model of the PII redaction engine of the marshal crate:               *)
(*   - the chunk converters           (src/src/processor/chunk.rs)         *)
(*   - the rule engine                (src/src/rule.rs)                    *)
(*   - the processor traversal        (src/src/processor.rs)               *)
(*   - the construction of a rule based processor (src/src/rule.rs)        *)
(*                                                                         *)
(* A Rust String is a sequence of chars; a char is a model string and has  *)
(* a width in bytes (Width), so that byte offsets, byte lengths and char   *)
(* boundaries are what they are in UTF-8.  Option<T> is a sequence of      *)
(* length at most one: None is << >> and Some(x) is <<x>>.                 *)
(***************************************************************************)
EXTENDS Integers, Sequences, FiniteSets, TLC

VARIABLES
    pc,         \* position of the caller in the scenario being run
    text,       \* chunk.rs: the `text` argument of chunks_from_str
    meta,       \* chunk.rs: the `meta` argument of both converters
    chunks,     \* chunk.rs: the Vec<Chunk> between the two converters
    joined,     \* chunk.rs: the (String, Meta) chunks_to_string returned
    processor,  \* rule.rs: the RuleBasedPiiProcessor (its applications)
    node,       \* processor.rs: the Annotated handed to a process_* method
    node_info,  \* processor.rs: the ValueInfo handed along with it
    processed,  \* processor.rs: what the process_* method returned
    reprocessed, \* processor.rs: what it returned for `processed` as its input
    call_stack, \* processor.rs: the containers whose items are being processed
    call,       \* processor.rs: the latest call of a process_* method
    cfg,        \* rule.rs: the RuleConfig handed to RuleBasedPiiProcessor::new
    new_result, \* rule.rs: the Result that RuleBasedPiiProcessor::new returned
    next_rule,  \* rule.rs: the rule `for rule in rules` of pii_process_chunks is at
    any_replaced, \* rule.rs: the `replaced` flag of pii_process_chunks
    searched,   \* rule.rs: the search_string apply_regex_to_chunks built last
    rule_input, \* rule.rs: the chunks the rule applied last was handed
    workers,    \* the threads that process a string through the one processor
    mask,       \* rule.rs: the Redaction::Mask whose insert_replacement_chunks runs
    build,      \* the profile of the build: overflow checks on (debug) or off (release)
    range_index, \* rule.rs: what get_range_index returned for the start and the end
    lookup      \* the ids of an application being resolved through the catalog

chunkVars == <<text, meta, chunks, joined>>
nodeVars == <<processor, node, node_info, processed, reprocessed>>
traversalVars == <<call_stack, call>>
configVars == <<cfg, new_result>>
ruleVars == <<next_rule, any_replaced, searched, rule_input>>
maskVars == <<mask, build, range_index>>
vars == <<pc, chunkVars, nodeVars, traversalVars, configVars, ruleVars, workers,
          maskVars, lookup>>

----------------------------------------------------------------------------
(* Option<T> *)

None == << >>
Some(x) == <<x>>
IsSome(o) == o # << >>
Unwrap(o) == o[1]

----------------------------------------------------------------------------
(* Strings *)

\* the sentinel char "\x00" of rule.rs
NUL == "NUL"

\* a char that takes two bytes in UTF-8
WIDE == "U+00E9"

Width(c) == IF c = WIDE THEN 2 ELSE 1

RECURSIVE ByteLen(_)
ByteLen(s) == IF s = << >> THEN 0 ELSE Width(Head(s)) + ByteLen(Tail(s))

\* the byte offset at which the char of index i (1-based) starts;
\* ByteOffset(s, Len(s) + 1) is the byte length
ByteOffset(s, i) == ByteLen(SubSeq(s, 1, i - 1))

\* str::is_char_boundary
IsCharBoundary(s, off) == \E i \in 1..(Len(s) + 1) : ByteOffset(s, i) = off

\* the index of the char that starts at the byte offset off (a char boundary)
CharAt(s, off) == CHOOSE i \in 1..(Len(s) + 1) : ByteOffset(s, i) = off

\* str::get(from..to): None unless from <= to <= len and both are char
\* boundaries
StrGet(s, from, to) ==
    IF from <= to /\ IsCharBoundary(s, from) /\ IsCharBoundary(s, to)
    THEN Some(SubSeq(s, CharAt(s, from), CharAt(s, to) - 1))
    ELSE None

\* str::get(from..)
StrGetFrom(s, from) == StrGet(s, from, ByteLen(s))

----------------------------------------------------------------------------
(* Meta, Remark, Note, Chunk *)

\* Note::new(rule_id, note)
Note(rule_id, note) == [rule_id |-> rule_id, note |-> note]

\* Remark::new(note) and Remark::with_range(note, range)
Remark(note) == [note |-> note, range |-> None]
RemarkWithRange(note, range) == [note |-> note, range |-> Some(range)]

\* Meta { remarks, errors, original_length, path }
Meta(remarks, errors, original_length, path) ==
    [remarks |-> remarks, errors |-> errors,
     original_length |-> original_length, path |-> path]

DefaultMeta == Meta(<< >>, << >>, None, None)

NoNote == Note("", None)
TextChunk(s) == [kind |-> "Text", text |-> s, note |-> NoNote]
RedactionChunk(s, note) == [kind |-> "Redaction", text |-> s, note |-> note]

\* Chunk::len
ChunkLen(chunk) == ByteLen(chunk.text)

----------------------------------------------------------------------------
(* chunk.rs: the converters *)

\* the loop of chunks_from_str from remark i on; `break` leaves the loop
\* with the chunks pushed so far and the pos reached so far
RECURSIVE ChunkWalk(_, _, _, _, _)
ChunkWalk(s, remarks, i, pos, rv) ==
    IF i > Len(remarks) THEN [pos |-> pos, rv |-> rv]
    ELSE IF remarks[i].range = None THEN ChunkWalk(s, remarks, i + 1, pos, rv)
    ELSE
        LET from == Unwrap(remarks[i].range)[1]
            to == Unwrap(remarks[i].range)[2]
            gap == IF from > pos THEN StrGet(s, pos, from) ELSE None
            rv1 == IF from > pos /\ IsSome(gap)
                   THEN Append(rv, TextChunk(Unwrap(gap)))
                   ELSE rv
            piece == StrGet(s, from, to)
        IN  IF from > pos /\ ~IsSome(gap) THEN [pos |-> pos, rv |-> rv]
            ELSE IF ~IsSome(piece) THEN [pos |-> pos, rv |-> rv1]
            ELSE ChunkWalk(s, remarks, i + 1, to,
                           Append(rv1, RedactionChunk(Unwrap(piece), remarks[i].note)))

\* chunks_from_str without the trailing text of lines 71-77
chunks_from_str_no_tail(s, m) == ChunkWalk(s, m.remarks, 1, 0, << >>).rv

chunks_from_str(s, m) ==
    LET w == ChunkWalk(s, m.remarks, 1, 0, << >>)
        rest == StrGetFrom(s, w.pos)
    IN  IF w.pos < ByteLen(s) /\ IsSome(rest)
        THEN Append(w.rv, TextChunk(Unwrap(rest)))
        ELSE w.rv

\* the loop of chunks_to_string: the string, the remarks and the pos after
\* the first n chunks
RECURSIVE JoinWalk(_, _)
JoinWalk(cs, n) ==
    IF n = 0 THEN [rv |-> << >>, remarks |-> << >>, pos |-> 0]
    ELSE
        LET before == JoinWalk(cs, n - 1)
            chunk == cs[n]
            new_pos == before.pos + ChunkLen(chunk)
        IN  [rv |-> before.rv \o chunk.text,
             remarks |-> IF chunk.kind = "Redaction"
                         THEN Append(before.remarks,
                                     RemarkWithRange(chunk.note, <<before.pos, new_pos>>))
                         ELSE before.remarks,
             pos |-> new_pos]

\* chunks_to_string with every range starting at 0 (pos never read)
chunks_to_string_from_zero(cs, m) ==
    LET w == JoinWalk(cs, Len(cs))
    IN  [value |-> w.rv,
         meta |-> [m EXCEPT !.remarks =
                      [i \in 1..Len(w.remarks) |->
                          [w.remarks[i] EXCEPT !.range =
                              Some(<<0, Unwrap(w.remarks[i].range)[2]>>)]]]]

\* chunks_to_string that builds its result on a fresh Meta
chunks_to_string_fresh_meta(cs, m) ==
    LET w == JoinWalk(cs, Len(cs))
    IN  [value |-> w.rv, meta |-> [DefaultMeta EXCEPT !.remarks = w.remarks]]

chunks_to_string(cs, m) ==
    LET w == JoinWalk(cs, Len(cs))
    IN  [value |-> w.rv, meta |-> [m EXCEPT !.remarks = w.remarks]]

----------------------------------------------------------------------------
(* Value and Annotated<Value> *)

\* Value::String(s)
StringValue(s) == [ty |-> "String", s |-> s, n |-> 0]
\* Value::Bool, U32, I32, U64, I64, F32, F64 with the value n
ScalarValue(ty, n) == [ty |-> ty, s |-> << >>, n |-> n]

\* Annotated(value, meta)
Annotated(value, m) == [value |-> value, meta |-> m]

DigitChars == <<"0", "1", "2", "3", "4", "5", "6", "7", "8", "9">>

RECURSIVE Digits(_)
Digits(n) == IF n < 10 THEN <<DigitChars[n + 1]>>
             ELSE Append(Digits(n \div 10), DigitChars[(n % 10) + 1])

\* Value::to_string: a string displays as itself (the replacement "[username]"
\* of the test comes out unquoted), a number as its decimal digits
ValueToString(v) ==
    CASE v.ty = "String" -> v.s
      [] v.ty = "Bool" -> IF v.n = 1 THEN <<"t", "r", "u", "e">>
                          ELSE <<"f", "a", "l", "s", "e">>
      [] v.ty = "Null" -> <<"n", "u", "l", "l">>
      [] OTHER -> IF v.n < 0 THEN <<"-">> \o Digits(0 - v.n) ELSE Digits(v.n)

\* Annotated::with_removed_value(remark)
with_removed_value(annotated, remark) ==
    Annotated(None, [annotated.meta EXCEPT !.remarks = Append(@, remark)])

----------------------------------------------------------------------------
(* Regex: a pattern is a sequence of atoms, each a char class taken once   *)
(* or one-or-more times (greedy), with capture groups that span atoms.     *)
(* Offsets are 0-based char offsets; every one is a char boundary.         *)

Atom(cls, plus) == [cls |-> cls, plus |-> plus]
Regex(atoms, groups) == [atoms |-> atoms, groups |-> groups]

\* the length of the run of chars of cls that starts at index i (1-based)
RECURSIVE RunLen(_, _, _)
RunLen(s, i, cls) ==
    IF i > Len(s) \/ s[i] \notin cls THEN 0 ELSE 1 + RunLen(s, i + 1, cls)

\* the preferred way for the atoms k.. to match at index i: the end index
\* (exclusive) of each atom, longest first with backtracking
RECURSIVE MatchAtoms(_, _, _, _)
RECURSIVE TryLen(_, _, _, _, _)
\* the longest length the atom k may take at index i, given the run there
Longest(atom, run) == IF atom.plus \/ run = 0 THEN run ELSE 1
MatchAtoms(atoms, k, s, i) ==
    IF k > Len(atoms) THEN Some(<< >>)
    ELSE TryLen(atoms, k, s, i, Longest(atoms[k], RunLen(s, i, atoms[k].cls)))
\* the atom k takes l chars if the atoms after it match (rest), else fewer
TryRest(atoms, k, s, i, l, rest) ==
    IF IsSome(rest) THEN Some(<<i + l>> \o Unwrap(rest))
    ELSE TryLen(atoms, k, s, i, l - 1)
TryLen(atoms, k, s, i, l) ==
    IF l = 0 THEN None
    ELSE TryRest(atoms, k, s, i, l, MatchAtoms(atoms, k + 1, s, i + l))

\* Captures of the match at index i whose atoms end at `ends`: m[1] is
\* group 0 and m[g + 1] is group g, each Some(<<start, end>>)
CapturesAt(re, i, ends) ==
    <<Some(<<i - 1, ends[Len(ends)] - 1>>)>>
        \o [g \in 1..Len(re.groups) |->
                Some(<<(IF re.groups[g][1] = 1 THEN i - 1
                        ELSE ends[re.groups[g][1] - 1] - 1),
                       ends[re.groups[g][2]] - 1>>)]

\* Regex::captures_iter: the leftmost non-overlapping matches from index i on
RECURSIVE CapturesIter(_, _, _)
\* the match at index i, if there is one (ends), and the matches after it
CapturesFrom(re, s, i, ends) ==
    IF ends = None THEN CapturesIter(re, s, i + 1)
    ELSE <<CapturesAt(re, i, Unwrap(ends))>>
             \o CapturesIter(re, s, Unwrap(ends)[Len(Unwrap(ends))])
CapturesIter(re, s, i) ==
    IF i > Len(s) THEN << >>
    ELSE CapturesFrom(re, s, i, MatchAtoms(re.atoms, 1, s, i))

\* Regex::is_match
IsMatch(re, s) == CapturesIter(re, s, 1) # << >>

\* &s[from..to] at char offsets
Slice(s, from, to) == SubSeq(s, from + 1, to)

----------------------------------------------------------------------------
(* rule.rs: redactions *)

\* Redaction::Replace { new_value }
ReplaceWith(new_value) ==
    [method |-> "replace", new_value |-> new_value, mask_char |-> "",
     chars_to_ignore |-> {}, range |-> <<None, None>>, algorithm |-> "", key |-> << >>]
\* Redaction::Mask { mask_char, chars_to_ignore, range }
MaskWith(mask_char, chars_to_ignore, range) ==
    [method |-> "mask", new_value |-> StringValue(<< >>), mask_char |-> mask_char,
     chars_to_ignore |-> chars_to_ignore, range |-> range, algorithm |-> "", key |-> << >>]
\* Redaction::Hash { algorithm, key }
HashWith(algorithm, key) ==
    [method |-> "hash", new_value |-> StringValue(<< >>), mask_char |-> "",
     chars_to_ignore |-> {}, range |-> <<None, None>>, algorithm |-> algorithm, key |-> key]

\* HashAlgorithm::hash_value: the MAC in uppercase hex, two digits per byte
\* of the digest (20, 32 or 64 bytes); the digits themselves are not modelled
hash_value(algorithm, txt, key) ==
    LET digest == CASE algorithm = "HMAC-SHA1" -> 20
                    [] algorithm = "HMAC-SHA256" -> 32
                    [] OTHER -> 64
    IN  [i \in 1..(2 * digest) |-> "F"]

\* in_range::get_range_index, where (idx * -1) returns: saturating_sub gives
\* len - |idx| or 0; for i32::MIN the product wraps to a usize of 2^31 or
\* more, which is above every len of the model, and the result is 0
get_range_index(idx, len, default) ==
    IF idx = None THEN default
    ELSE IF Unwrap(idx) < 0
         THEN (IF len + Unwrap(idx) >= 0 THEN len + Unwrap(idx) ELSE 0)
         ELSE (IF Unwrap(idx) < len THEN Unwrap(idx) ELSE len)

in_range(range, pos, len) ==
    LET start == get_range_index(range[1], len, 0)
        end == get_range_index(range[2], len, len)
    IN  pos >= start /\ pos < end

\* Redaction::insert_replacement_chunks: the chunk pushed to output
redaction_insert_replacement_chunks(redaction, txt, note) ==
    CASE redaction.method = "mask" ->
            RedactionChunk(
                [i \in 1..Len(txt) |->
                    IF in_range(redaction.range, i - 1, ByteLen(txt))
                           /\ txt[i] \notin redaction.chars_to_ignore
                    THEN redaction.mask_char
                    ELSE txt[i]],
                note)
      [] redaction.method = "hash" ->
            RedactionChunk(hash_value(redaction.algorithm, txt, redaction.key), note)
      [] OTHER ->
            RedactionChunk(ValueToString(redaction.new_value), note)

\* a slip: the length after the replacement is what gets recorded
RecordOriginalLength_of_output(m, new_len, original_length) ==
    IF new_len # original_length /\ m.original_length = None
    THEN [m EXCEPT !.original_length = Some(new_len)]
    ELSE m

\* the original length is recorded when the length changed and none is set
RecordOriginalLength(m, new_len, original_length) ==
    IF new_len # original_length /\ m.original_length = None
    THEN [m EXCEPT !.original_length = Some(original_length)]
    ELSE m

\* lines 227-230 and 242-245: the string j.value becomes the value, and the
\* original length is recorded in j.meta
StringReplacement(j, original_length) ==
    Annotated(Some(StringValue(j.value)),
              RecordOriginalLength(j.meta, ByteLen(j.value), original_length))

\* Redaction::set_replacement_value
set_replacement_value(redaction, annotated, note) ==
    CASE redaction.method = "mask" ->
            IF IsSome(annotated.value)
            THEN StringReplacement(
                     chunks_to_string(
                         <<redaction_insert_replacement_chunks(
                               redaction, ValueToString(Unwrap(annotated.value)), note)>>,
                         annotated.meta),
                     ByteLen(ValueToString(Unwrap(annotated.value))))
            ELSE with_removed_value(annotated, Remark(note))
      [] redaction.method = "hash" ->
            IF IsSome(annotated.value)
            THEN StringReplacement(
                     [value |-> hash_value(redaction.algorithm,
                                           ValueToString(Unwrap(annotated.value)),
                                           redaction.key),
                      meta |-> annotated.meta],
                     ByteLen(ValueToString(Unwrap(annotated.value))))
            ELSE with_removed_value(annotated, Remark(note))
      [] OTHER ->
            Annotated(Some(redaction.new_value),
                      [annotated.meta EXCEPT !.remarks = Append(@, Remark(note))])

----------------------------------------------------------------------------
(* rule.rs: rules *)

\* RuleType
PatternType(pattern, replace_groups) ==
    [tag |-> "Pattern", pattern |-> pattern, replace_groups |-> replace_groups]
RemovePairType(key_pattern) ==
    [tag |-> "RemovePair", pattern |-> key_pattern, replace_groups |-> None]
PlainType(tag) ==
    [tag |-> tag, pattern |-> Regex(<< >>, << >>), replace_groups |-> None]

\* RuleSpec { ty, redaction, note }
RuleSpec(ty, redaction, note) == [ty |-> ty, redaction |-> redaction, note |-> note]

\* Rule { id, spec }
Rule(id, spec) == [id |-> id, spec |-> spec]

\* Rule::create_note
create_note(rule) == Note(rule.id, rule.spec.note)

\* Rule::insert_replacement_chunks: the chunk pushed to output
insert_replacement_chunks(rule, txt) ==
    IF IsSome(rule.spec.redaction)
    THEN redaction_insert_replacement_chunks(Unwrap(rule.spec.redaction), txt,
                                             create_note(rule))
    ELSE RedactionChunk(<< >>, create_note(rule))

\* a slip: a rule without a redaction records the remark without its note
replace_value_without_note(rule, annotated) ==
    IF IsSome(rule.spec.redaction)
    THEN set_replacement_value(Unwrap(rule.spec.redaction), annotated, create_note(rule))
    ELSE with_removed_value(annotated, Remark(Note(rule.id, None)))

\* Rule::replace_value
replace_value(rule, annotated) ==
    IF IsSome(rule.spec.redaction)
    THEN set_replacement_value(Unwrap(rule.spec.redaction), annotated, create_note(rule))
    ELSE with_removed_value(annotated, Remark(create_note(rule)))

----------------------------------------------------------------------------
(* rule.rs: Rule::apply_regex_to_chunks.  A failed unwrap or an inverted   *)
(* slice ends the call: the result then has panic = TRUE.                  *)

\* a slip: the text of a Text chunk goes into the search string as it is
StripNul_keeps_nul(txt) == txt

\* text.replace("\x00", "")
StripNul(txt) == SelectSeq(txt, LAMBDA c : c # NUL)

\* lines 368-379: the search string, and the Redaction chunks in the order
\* in which replacement_chunks.pop() hands them out after the reverse
RECURSIVE SearchString(_)
SearchString(cs) ==
    IF cs = << >> THEN << >>
    ELSE (IF Head(cs).kind = "Text" THEN StripNul(Head(cs).text) ELSE <<NUL>>)
             \o SearchString(Tail(cs))

ReplacementChunks(cs) == SelectSeq(cs, LAMBDA c : c.kind = "Redaction")

\* the loop of process_text (lines 386-392) from char i on, the current
\* piece starting at the offset pos
RECURSIVE SplitAtNul(_, _, _, _, _)
SplitAtNul(txt, i, pos, rv, replacement_chunks) ==
    IF i > Len(txt)
    THEN [rv |-> Append(rv, TextChunk(Slice(txt, pos, Len(txt)))),
          replacement_chunks |-> replacement_chunks, panic |-> FALSE]
    ELSE IF txt[i] # NUL THEN SplitAtNul(txt, i + 1, pos, rv, replacement_chunks)
    ELSE IF replacement_chunks = << >>
         THEN [rv |-> rv, replacement_chunks |-> replacement_chunks, panic |-> TRUE]
         ELSE SplitAtNul(txt, i + 1, i,
                         Append(Append(rv, TextChunk(Slice(txt, pos, i - 1))),
                                Head(replacement_chunks)),
                         Tail(replacement_chunks))

\* process_text (lines 382-393)
process_text(txt, rv, replacement_chunks) ==
    IF txt = << >>
    THEN [rv |-> rv, replacement_chunks |-> replacement_chunks, panic |-> FALSE]
    ELSE SplitAtNul(txt, 1, 0, rv, replacement_chunks)

Panicked(st) == [st EXCEPT !.panic = TRUE]

\* the loop state after process_text returned t, with pos = new_pos
Flushed(t, new_pos) ==
    [rv |-> t.rv, replacement_chunks |-> t.replacement_chunks,
     pos |-> new_pos, panic |-> t.panic]

\* process_text(&search_string[pos..to], ..) followed by pos = new_pos
FlushTo(search_string, st, to, new_pos) ==
    IF st.panic THEN st
    ELSE IF st.pos > to THEN Panicked(st)
    ELSE Flushed(process_text(Slice(search_string, st.pos, to), st.rv,
                              st.replacement_chunks),
                 new_pos)

\* self.insert_replacement_chunks(g.as_str(), &mut rv)
PushReplacement(flushed, chunk) ==
    IF flushed.panic THEN flushed ELSE [flushed EXCEPT !.rv = Append(@, chunk)]

\* lines 408-414 and 420-426: flush the gap before a target, push the
\* replacement of the target, move pos to its end
ReplaceTarget(rule, search_string, st, span) ==
    PushReplacement(FlushTo(search_string, st, span[1], span[2]),
                    insert_replacement_chunks(
                        rule, Slice(search_string, span[1], span[2])))

\* lines 401-417: the groups idx.. of the match m
RECURSIVE ReplaceGroups(_, _, _, _, _, _)
ReplaceGroups(rule, search_string, m, groups, idx, st) ==
    IF idx > Len(m) - 1 THEN st
    ELSE ReplaceGroups(rule, search_string, m, groups, idx + 1,
                       IF IsSome(m[idx + 1]) /\ (idx % 256) \in groups
                       THEN ReplaceTarget(rule, search_string, st, Unwrap(m[idx + 1]))
                       ELSE st)

\* lines 396-436: the matches k.. of captures_iter
RECURSIVE ReplaceMatches(_, _, _, _, _, _)
ReplaceMatches(rule, search_string, ms, replace_groups, k, st) ==
    IF k > Len(ms) \/ st.panic THEN st
    ELSE
        ReplaceMatches(rule, search_string, ms, replace_groups, k + 1,
            FlushTo(search_string,
                    IF IsSome(replace_groups)
                    THEN ReplaceGroups(rule, search_string, ms[k],
                                       Unwrap(replace_groups), 1, st)
                    ELSE ReplaceTarget(rule, search_string, st, Unwrap(ms[k][1])),
                    Unwrap(ms[k][1])[2], Unwrap(ms[k][1])[2]))

\* panic is TRUE when the call did not return
ChunksResult(cs, m, panic) == [chunks |-> cs, meta |-> m, panic |-> panic]

\* lines 395-438 over the search string
ScanSearchString(rule, search_string, replacement_chunks, regex, replace_groups) ==
    FlushTo(search_string,
            ReplaceMatches(rule, search_string, CapturesIter(regex, search_string, 1),
                           replace_groups, 1,
                           [rv |-> << >>, replacement_chunks |-> replacement_chunks,
                            pos |-> 0, panic |-> FALSE]),
            Len(search_string), Len(search_string))

\* (rv, meta) of line 440
Scanned(final, m) == ChunksResult(final.rv, m, final.panic)

apply_regex_to_chunks(rule, cs, m, regex, replace_groups) ==
    Scanned(ScanSearchString(rule, SearchString(cs), ReplacementChunks(cs), regex,
                             replace_groups),
            m)

----------------------------------------------------------------------------
(* detectors: the fixed regexes, cut down to the shape that matters here:  *)
(* runs of word chars or digits around one separator.                      *)

WordChars == {"a", "b"}
DigitSet == {DigitChars[i] : i \in 1..10}

EMAIL_REGEX ==
    Regex(<<Atom(WordChars, TRUE), Atom({"@"}, FALSE), Atom(WordChars, TRUE)>>, << >>)
IPV4_REGEX ==
    Regex(<<Atom(DigitSet, TRUE), Atom({"."}, FALSE), Atom(DigitSet, TRUE)>>, << >>)
IPV6_REGEX ==
    Regex(<<Atom(DigitSet, TRUE), Atom({":"}, FALSE), Atom(DigitSet, TRUE)>>, << >>)
CREDITCARD_REGEX ==
    Regex(<<Atom(DigitSet, TRUE), Atom({"-"}, FALSE), Atom(DigitSet, TRUE)>>, << >>)

----------------------------------------------------------------------------
(* rule.rs: Rule::process_chunks, Rule::process_value and the PiiProcessor *)
(* of RuleBasedPiiProcessor                                                *)

\* Result<(Vec<Chunk>, Meta), (Vec<Chunk>, Meta)>
ChunksOk(r) == [ok |-> ~r.panic, chunks |-> r.chunks, meta |-> r.meta, panic |-> r.panic]
ChunksErr(cs, m) == [ok |-> FALSE, chunks |-> cs, meta |-> m, panic |-> FALSE]

\* the regex that process_chunks hands to apply_regex_to_chunks (for Ip, to
\* the first of its two calls)
RegexOf(ty) ==
    CASE ty.tag = "Pattern" -> ty.pattern
      [] ty.tag = "Email" -> EMAIL_REGEX
      [] ty.tag \in {"Ipv4", "Ip"} -> IPV4_REGEX
      [] ty.tag = "Ipv6" -> IPV6_REGEX
      [] OTHER -> CREDITCARD_REGEX

\* a slip: an Ip rule stops after the IPv4 detector
Ipv6Pass_skipped(rule, v4) == v4

\* lines 348-349: the second call of an Ip rule, on the result of the first
Ipv6Pass(rule, v4) ==
    IF rule.spec.ty.tag # "Ip" \/ v4.panic THEN v4
    ELSE apply_regex_to_chunks(rule, v4.chunks, v4.meta, IPV6_REGEX, None)

\* Rule::process_chunks
process_chunks(rule, cs, m) ==
    IF rule.spec.ty.tag \in {"Remove", "RemovePair"} THEN ChunksErr(cs, m)
    ELSE ChunksOk(Ipv6Pass(rule,
                           apply_regex_to_chunks(rule, cs, m, RegexOf(rule.spec.ty),
                                                 rule.spec.ty.replace_groups)))

\* Result<Annotated<Value>, Annotated<Value>>
ValueResult(ok, annotated) == [ok |-> ok, annotated |-> annotated]

\* a slip: every rule type replaces the value
process_value_of_any_type(rule, value) == ValueResult(TRUE, replace_value(rule, value))

\* a process_value that removes by key without looking at the path
process_value_whatever_the_path(rule, value) ==
    IF rule.spec.ty.tag \in {"Remove", "RemovePair"}
    THEN ValueResult(TRUE, replace_value(rule, value))
    ELSE ValueResult(FALSE, value)

\* Rule::process_value
process_value(rule, value) ==
    LET ty == rule.spec.ty
    IN  CASE ty.tag = "Remove" -> ValueResult(TRUE, replace_value(rule, value))
          [] ty.tag = "RemovePair" ->
                IF IsSome(value.meta.path) /\ IsMatch(ty.pattern, Unwrap(value.meta.path))
                THEN ValueResult(TRUE, replace_value(rule, value))
                ELSE ValueResult(FALSE, value)
          [] OTHER -> ValueResult(FALSE, value)

\* self.applications.get(&pii_kind), no entry being no rules
RulesOf(applications, pii_kind) ==
    IF pii_kind \in DOMAIN applications THEN applications[pii_kind] ELSE << >>

\* lines 532-538: rv after a rule returned r, and `replaced`
AfterRule(replaced, r) ==
    [ok |-> replaced \/ r.ok, chunks |-> r.chunks, meta |-> r.meta, panic |-> r.panic]

\* the loop of pii_process_chunks (lines 531-539) from rule i on
RECURSIVE ChunkRules(_, _, _)
ChunkRules(rules, i, acc) ==
    IF i > Len(rules) \/ acc.panic THEN acc
    ELSE ChunkRules(rules, i + 1,
                    AfterRule(acc.ok, process_chunks(rules[i], acc.chunks, acc.meta)))

\* RuleBasedPiiProcessor::pii_process_chunks; ok is `replaced`
pii_process_chunks(applications, cs, m, pii_kind) ==
    ChunkRules(RulesOf(applications, pii_kind), 1, ChunksErr(cs, m))

\* the loop of pii_process_value (lines 551-556) from rule i on
RECURSIVE ValueRules(_, _, _)
\* lines 552-555: return on Ok, go on with the next rule on Err
AfterValueRule(rules, i, r) ==
    IF r.ok THEN r.annotated ELSE ValueRules(rules, i + 1, r.annotated)
ValueRules(rules, i, value) ==
    IF i > Len(rules) THEN value
    ELSE AfterValueRule(rules, i, process_value(rules[i], value))

\* RuleBasedPiiProcessor::pii_process_value
pii_process_value(applications, value, kind) ==
    ValueRules(RulesOf(applications, kind), 1, value)

----------------------------------------------------------------------------
(* processor.rs: the leaves of the traversal *)

\* ValueInfo { pii_kind, cap }
ValueInfo(pii_kind, cap) == [pii_kind |-> pii_kind, cap |-> cap]

\* a slip: the PII kind of the container is handed down whatever it is
derive_keeps_pii_kind(info) ==
    ValueInfo(info.pii_kind,
              IF info.cap = Some("databag") THEN Some("databag") ELSE None)

\* ValueInfo::derive
derive(info) ==
    ValueInfo(IF info.pii_kind = Some("databag") THEN Some("databag") ELSE None,
              IF info.cap = Some("databag") THEN Some("databag") ELSE None)

\* what a process_* call hands back; panic = TRUE when it did not return
Processed(annotated, panic) ==
    [value |-> annotated.value, meta |-> annotated.meta, panic |-> panic]

\* a slip: the value that pii_process_value returned is kept whatever it is
KeepVariant_whatever(ty, r) == r

\* the match of lines 230-239 and 203-206: a value of another variant than
\* ty is coerced to None
KeepVariant(ty, r) ==
    IF IsSome(r.value) /\ Unwrap(r.value).ty = ty THEN r ELSE Annotated(None, r.meta)

\* lines 231-238: a string that pii_process_value returned is kept, with the
\* original length recorded; any other value is coerced to None
FallbackResult(v, original_length) ==
    IF IsSome(v.value) /\ Unwrap(v.value).ty = "String"
    THEN Annotated(v.value,
                   RecordOriginalLength(v.meta, ByteLen(Unwrap(v.value).s),
                                        original_length))
    ELSE Annotated(None, v.meta)

\* lines 220-241: the match on what pii_process_chunks returned (r)
AfterChunks(applications, value, pii_kind, r) ==
    IF r.panic THEN Processed(Annotated(Some(StringValue(value)), r.meta), TRUE)
    ELSE IF r.ok
    THEN Processed(StringReplacement(chunks_to_string(r.chunks, r.meta), ByteLen(value)),
                   FALSE)
    ELSE Processed(
            FallbackResult(
                pii_process_value(applications,
                                  Annotated(Some(StringValue(value)), r.meta), pii_kind),
                ByteLen(value)),
            FALSE)

\* Processor::process_string of a PiiProcessor
process_string(applications, annotated, info) ==
    IF info.pii_kind = None \/ annotated.value = None THEN Processed(annotated, FALSE)
    ELSE AfterChunks(applications, Unwrap(annotated.value).s, Unwrap(info.pii_kind),
                     pii_process_chunks(applications,
                                        chunks_from_str(Unwrap(annotated.value).s,
                                                        annotated.meta),
                                        annotated.meta, Unwrap(info.pii_kind)))

\* a slip: a node without a PII kind is processed as freeform
process_primitive_as_freeform(applications, annotated, info) ==
    IF annotated.value = None THEN Processed(annotated, FALSE)
    ELSE Processed(
            KeepVariant(Unwrap(annotated.value).ty,
                        pii_process_value(applications, annotated, "freeform")),
            FALSE)

\* impl_primitive_pii_process: process_bool, process_u32, .. process_f64
process_primitive(applications, annotated, info) ==
    IF info.pii_kind = None \/ annotated.value = None THEN Processed(annotated, FALSE)
    ELSE Processed(
            KeepVariant(Unwrap(annotated.value).ty,
                        pii_process_value(applications, annotated,
                                          Unwrap(info.pii_kind))),
            FALSE)

----------------------------------------------------------------------------
(* Bounded inputs of the chunk converters *)

\* longest text handed to chunks_from_str, in chars
MaxTextLen == 2
\* most remarks in the meta handed to chunks_from_str
MaxRemarks == 2
\* most chunks in a vector handed to chunks_to_string by a caller
MaxChunks == 3

RECURSIVE SeqsUpTo(_, _)
SeqsUpTo(S, n) ==
    IF n = 0 THEN {<< >>}
    ELSE LET shorter == SeqsUpTo(S, n - 1)
         IN  shorter \cup {Append(q, x) : q \in {r \in shorter : Len(r) = n - 1}, x \in S}

ChunkChars == {"a", WIDE}
ChunkTexts == SeqsUpTo(ChunkChars, MaxTextLen)

\* byte offsets a remark of the input may name: every offset of the longest
\* text of one byte chars, and one past it
ChunkOffsets == 0..(MaxTextLen + 1)
ChunkNote == Note("@email:strip", None)
ChunkRemarks ==
    {Remark(ChunkNote)}
        \cup {RemarkWithRange(ChunkNote, <<f, t>>) : f \in ChunkOffsets, t \in ChunkOffsets}
ChunkMetas ==
    {Meta(r, << >>, ol, None) : r \in SeqsUpTo(ChunkRemarks, MaxRemarks),
                                ol \in {None}}

\* the chunks a caller of chunks_to_string may build
VectorChunks ==
    {TextChunk(s) : s \in SeqsUpTo(ChunkChars, 1)}
        \cup {RedactionChunk(s, ChunkNote) : s \in SeqsUpTo(ChunkChars, 1)}
ChunkVectors == SeqsUpTo(VectorChunks, MaxChunks)

NotJoined == [value |-> << >>, meta |-> DefaultMeta]

----------------------------------------------------------------------------
(* The chunk converters as a state machine: a caller either chunks a text  *)
(* and joins the chunks again (process_string), or joins a chunk vector it *)
(* built itself (set_replacement_value, rule.rs:224-226).                  *)

\* the parts of the state that a scenario leaves alone
NoCall == [variant |-> "none", info |-> ValueInfo(None, None),
           derived_from |-> ValueInfo(None, None), depth |-> 0]
TraversalIdle == call_stack = << >> /\ call = NoCall

NotConstructed == [ok |-> FALSE, applications |-> << >>, bad_reference |-> None]
ConfigIdle ==
    /\ cfg = [rules |-> << >>, applications |-> << >>]
    /\ new_result = NotConstructed

RulesIdle ==
    /\ next_rule = 0
    /\ any_replaced = FALSE
    /\ searched = << >>
    /\ rule_input = << >>

WorkersIdle == workers = << >>

NoRangeIndex == [start |-> 0, end |-> 0, panic |-> FALSE]
MaskIdle ==
    /\ mask = << >>
    /\ build = "release"
    /\ range_index = NoRangeIndex

LookupIdle == lookup = << >>

NodeIdle ==
    /\ processor = [applications |-> << >>]
    /\ node = Annotated(None, DefaultMeta)
    /\ node_info = ValueInfo(None, None)
    /\ processed = Processed(Annotated(None, DefaultMeta), FALSE)
    /\ reprocessed = Processed(Annotated(None, DefaultMeta), FALSE)

InitChunks ==
    /\ MaskIdle
    /\ LookupIdle
    /\ RulesIdle
    /\ WorkersIdle
    /\ NodeIdle
    /\ TraversalIdle
    /\ ConfigIdle
    /\ joined = NotJoined
    /\ \/ /\ pc = "start"
          /\ text \in ChunkTexts
          /\ meta \in ChunkMetas
          /\ chunks = << >>
       \/ /\ pc = "vector"
          /\ text = << >>
          /\ meta \in {DefaultMeta, Meta(<<Remark(ChunkNote)>>, << >>, Some(7), None),
                       Meta(<<Remark(ChunkNote)>>, <<"invalid">>, Some(7), Some(<<"k">>))}
          /\ chunks \in ChunkVectors

CallChunksFromStr ==
    /\ pc = "start"
    /\ chunks' = chunks_from_str(text, meta)
    /\ pc' = "chunked"
    /\ UNCHANGED <<text, meta, joined, nodeVars, traversalVars, configVars, ruleVars, workers, maskVars, lookup>>

CallChunksToString ==
    /\ pc \in {"chunked", "vector"}
    /\ joined' = chunks_to_string(chunks, meta)
    /\ pc' = IF pc = "chunked" THEN "roundtrip" ELSE "joined"
    /\ UNCHANGED <<text, meta, chunks, nodeVars, traversalVars, configVars, ruleVars, workers, maskVars, lookup>>

NextChunks == CallChunksFromStr \/ CallChunksToString

SpecChunks == InitChunks /\ [][NextChunks]_vars

----------------------------------------------------------------------------
(* Claims about the chunk converters *)

RangeFrom(r) == Unwrap(r.range)[1]
RangeTo(r) == Unwrap(r.range)[2]

\* a range is in bounds for s: text.get(from..to) is Some
InBounds(s, r) == IsSome(r.range) /\ IsSome(StrGet(s, RangeFrom(r), RangeTo(r)))

\* the ranged in-bounds remarks of a list
RECURSIVE RangedInBounds(_, _)
RangedInBounds(s, remarks) ==
    IF remarks = << >> THEN << >>
    ELSE IF InBounds(s, Head(remarks))
         THEN <<Head(remarks)>> \o RangedInBounds(s, Tail(remarks))
         ELSE RangedInBounds(s, Tail(remarks))

\* every remark carries a range that is in bounds, and each range starts at
\* or after the end of the one before it
Partitioning(s, remarks) ==
    /\ \A i \in 1..Len(remarks) : InBounds(s, remarks[i])
    /\ \A i \in 1..(Len(remarks) - 1) : RangeTo(remarks[i]) <= RangeFrom(remarks[i + 1])

RoundTrips == joined.value = text /\ joined.meta.remarks = meta.remarks

\* C1 (as amended): for every string s and every meta m whose remarks all
\* carry a range that is in bounds for s (from <= to <= len, on char
\* boundaries), each starting no earlier than the previous one ends,
\* chunks_to_string(chunks_from_str(s, m), m) returns s and the remarks of m.
C1_RoundTripOfPartition ==
    (pc = "roundtrip" /\ Partitioning(text, meta.remarks)) => RoundTrips

C1_Witness ==
    /\ pc = "roundtrip"
    /\ Partitioning(text, meta.remarks)
    /\ Len(meta.remarks) = 2
    /\ \E i \in 1..Len(chunks) : chunks[i].kind = "Text"
    /\ \E i \in 1..Len(chunks) : chunks[i].kind = "Redaction" /\ chunks[i].text # << >>
    /\ joined.value = text

\* C1 (as claimed): the round trip holds whenever every range that m holds
\* is in bounds for s.
C1_RoundTripOfInBounds ==
    (pc = "roundtrip"
        /\ \A i \in 1..Len(meta.remarks) :
              IsSome(meta.remarks[i].range) => InBounds(text, meta.remarks[i]))
    => RoundTrips

\* C2: for every s and every m, also with an out-of-bounds remark, the round
\* trip returns exactly s and exactly the ranged in-bounds remarks of m.
C2_RoundTripOfAnyMeta ==
    pc = "roundtrip" =>
        /\ joined.value = text
        /\ joined.meta.remarks = RangedInBounds(text, meta.remarks)

\* C3 (as amended): the remarks chunks_to_string produces do not overlap and
\* are non-decreasing in `from`; `from` increases strictly after every
\* remark of a non-empty Redaction chunk.
C3_RangesMonotone ==
    pc \in {"roundtrip", "joined"} =>
        \A i \in 1..(Len(joined.meta.remarks) - 1) :
            LET r == joined.meta.remarks[i]
                n == joined.meta.remarks[i + 1]
            IN  /\ RangeFrom(r) <= RangeTo(r)
                /\ RangeTo(r) <= RangeFrom(n)
                /\ RangeFrom(r) < RangeTo(r) => RangeFrom(r) < RangeFrom(n)

C3_Witness ==
    /\ pc = "joined"
    /\ Len(joined.meta.remarks) = 3
    /\ \E i \in 1..3 : chunks[i].kind = "Redaction" /\ chunks[i].text = << >>
    /\ \E i \in 1..3 : chunks[i].kind = "Redaction" /\ chunks[i].text # << >>

\* C3 (as claimed): the remarks are strictly increasing in `from`, also with
\* empty Redaction chunks.
C3_RangesStrictlyIncreasing ==
    pc \in {"roundtrip", "joined"} =>
        \A i \in 1..(Len(joined.meta.remarks) - 1) :
            /\ RangeTo(joined.meta.remarks[i]) <= RangeFrom(joined.meta.remarks[i + 1])
            /\ RangeFrom(joined.meta.remarks[i]) < RangeFrom(joined.meta.remarks[i + 1])

\* the indexes of the Redaction chunks, in chunk order
RedactionIndexes(cs) ==
    SelectSeq([i \in 1..Len(cs) |-> i], LAMBDA i : cs[i].kind = "Redaction")

\* the byte length of the first n chunks together
RECURSIVE BytesOfChunks(_, _)
BytesOfChunks(cs, n) ==
    IF n = 0 THEN 0 ELSE BytesOfChunks(cs, n - 1) + ByteLen(cs[n].text)

\* C28: chunks_to_string replaces meta.remarks by one ranged remark per
\* Redaction chunk, in chunk order, whose range is (pos, pos + byte length of
\* the chunk) with pos the byte length of all chunks before it; errors,
\* original_length and path of the meta come back as they went in.
C28_RemarksReplacedMetaKept ==
    pc \in {"roundtrip", "joined"} =>
        LET idx == RedactionIndexes(chunks)
        IN  /\ Len(joined.meta.remarks) = Len(idx)
            /\ \A k \in 1..Len(idx) :
                   joined.meta.remarks[k] =
                       RemarkWithRange(chunks[idx[k]].note,
                                       <<BytesOfChunks(chunks, idx[k] - 1),
                                         BytesOfChunks(chunks, idx[k])>>)
            /\ joined.meta.errors = meta.errors
            /\ joined.meta.original_length = meta.original_length
            /\ joined.meta.path = meta.path

C28_Witness ==
    /\ pc = "joined"
    /\ meta.errors # << >> /\ meta.path # None /\ meta.original_length # None
    /\ meta.remarks # << >>
    /\ Len(chunks) = 3
    /\ chunks[1].kind = "Text" /\ chunks[1].text = <<WIDE>>
    /\ chunks[2].kind = "Redaction" /\ chunks[2].text = <<WIDE>>
    /\ chunks[3].kind = "Redaction"
    /\ Len(joined.meta.remarks) = 2

----------------------------------------------------------------------------
(* Bounded inputs of the leaf processing *)

\* longest string value of a node, in chars
MaxStr == 2
\* most rules in the application list of a PII kind
MaxRules == 2

AllChars == {"a", "b", NUL, WIDE, "*"}

Some_a == Regex(<<Atom({"a"}, TRUE)>>, << >>)
One_a == Regex(<<Atom({"a"}, FALSE)>>, << >>)
\* [^b]+ : a negated class holds every other char, the NUL too
Not_b == Regex(<<Atom(AllChars \ {"b"}, TRUE)>>, << >>)
\* b(a+)
Group_a == Regex(<<Atom({"b"}, FALSE), Atom({"a"}, TRUE)>>, <<<<2, 2>>>>)
Key_foo == Regex(<<Atom({"f"}, FALSE), Atom({"o"}, FALSE), Atom({"o"}, FALSE)>>, << >>)

MaskAll == MaskWith("*", {}, <<None, None>>)

\* RuleConfig.rules, after the config of test_basic_stripping
UserRules ==
    [mask_a      |-> RuleSpec(PatternType(Some_a, None), Some(MaskAll), Some("masked")),
     mask_not_b  |-> RuleSpec(PatternType(Not_b, None), Some(MaskAll), None),
     replace_a   |-> RuleSpec(PatternType(One_a, None),
                              Some(ReplaceWith(StringValue(<<"[", "x", "]">>))), None),
     strip_a     |-> RuleSpec(PatternType(Some_a, None), None, Some("stripped")),
     username    |-> RuleSpec(PatternType(Group_a, Some({1})),
                              Some(ReplaceWith(StringValue(<<"[", "u", "]">>))),
                              Some("username in path")),
     remove_ip   |-> RuleSpec(PlainType("Remove"), None, Some("IP address removed")),
     remove_hash |-> RuleSpec(PlainType("Remove"),
                              Some(HashWith("HMAC-SHA1", <<"k">>)), None),
     remove_mask |-> RuleSpec(PlainType("Remove"), Some(MaskAll), None),
     replace_u64 |-> RuleSpec(PlainType("Remove"),
                              Some(ReplaceWith(ScalarValue("U64", 7))), None),
     remove_foo  |-> RuleSpec(RemovePairType(Key_foo),
                              Some(ReplaceWith(StringValue(<<"w">>))), None)]

RuleIds == DOMAIN UserRules
RuleLists ==
    {[i \in 1..Len(ids) |-> Rule(ids[i], UserRules[ids[i]])] :
        ids \in SeqsUpTo(RuleIds, MaxRules)}

\* the application tables of a processor: none, or one for freeform
ApplicationTables == {<< >>} \cup {[k \in {"freeform"} |-> rules] : rules \in RuleLists}

NodeStrings ==
    SeqsUpTo({"a", "b"}, MaxStr)
        \cup {<<"a", NUL, "b">>, <<NUL, "a">>, <<WIDE, "a">>, <<"b", WIDE>>}
ScalarTypes == {"Bool", "U32", "I32", "U64", "I64", "F32", "F64"}
NodeValues ==
    {None, Some(ScalarValue("Null", 0))}
        \cup {Some(StringValue(s)) : s \in NodeStrings}
        \cup {Some(ScalarValue(ty, IF ty = "Bool" THEN 1 ELSE 42)) : ty \in ScalarTypes}

EarlierNote == Note("earlier", None)
NodeMetas ==
    {DefaultMeta,
     Meta(<< >>, << >>, Some(9), None),
     Meta(<< >>, << >>, None, Some(<<"f", "o", "o">>)),
     Meta(<<RemarkWithRange(EarlierNote, <<0, 1>>)>>, << >>, None, None),
     Meta(<<Remark(EarlierNote)>>, << >>, None, None)}

NotProcessed == Processed(Annotated(None, DefaultMeta), FALSE)

----------------------------------------------------------------------------
(* The leaves of Processor::process_value as a state machine: a node is    *)
(* processed once, and its result may be processed once more.              *)

ChunksIdle ==
    /\ text = << >>
    /\ meta = DefaultMeta
    /\ chunks = << >>
    /\ joined = NotJoined

InitNode ==
    /\ MaskIdle
    /\ LookupIdle
    /\ RulesIdle
    /\ WorkersIdle
    /\ ChunksIdle
    /\ TraversalIdle
    /\ ConfigIdle
    /\ pc = "node"
    /\ processor \in {[applications |-> t] : t \in ApplicationTables}
    /\ node \in {Annotated(v, m) : v \in NodeValues, m \in NodeMetas}
    /\ node_info \in {ValueInfo(k, None) : k \in {None, Some("freeform")}}
    /\ processed = NotProcessed
    /\ reprocessed = NotProcessed

IsString(a) == IsSome(a.value) /\ Unwrap(a.value).ty = "String"
IsPrimitive(a) == IsSome(a.value) /\ Unwrap(a.value).ty \in ScalarTypes

\* the arms of Processor::process_value for a node `a`
ProcessLeaf(a) ==
    IF IsString(a) THEN process_string(processor.applications, a, node_info)
    ELSE IF IsPrimitive(a) THEN process_primitive(processor.applications, a, node_info)
    ELSE Processed(a, FALSE)

\* processor.rs:127-130
ProcessString ==
    /\ pc = "node"
    /\ IsString(node)
    /\ processed' = process_string(processor.applications, node, node_info)
    /\ pc' = IF processed'.panic THEN "panicked" ELSE "processed"
    /\ UNCHANGED <<chunkVars, processor, node, node_info, reprocessed, traversalVars, configVars, ruleVars, workers, maskVars, lookup>>

\* processor.rs:99-126
ProcessPrimitive ==
    /\ pc = "node"
    /\ IsPrimitive(node)
    /\ processed' = process_primitive(processor.applications, node, node_info)
    /\ pc' = "processed"
    /\ UNCHANGED <<chunkVars, processor, node, node_info, reprocessed, traversalVars, configVars, ruleVars, workers, maskVars, lookup>>

\* a slip: an absent value is handed to the rules of freeform all the same
ProcessAbsent_through_rules ==
    /\ pc = "node"
    /\ ~IsString(node) /\ ~IsPrimitive(node)
    /\ processed' = Processed(pii_process_value(processor.applications, node, "freeform"),
                              FALSE)
    /\ pc' = "processed"
    /\ UNCHANGED <<chunkVars, processor, node, node_info, reprocessed, traversalVars,
                   configVars, ruleVars, workers, maskVars, lookup>>

\* processor.rs:146-147
ProcessAbsent ==
    /\ pc = "node"
    /\ ~IsString(node) /\ ~IsPrimitive(node)
    /\ processed' = Processed(node, FALSE)
    /\ pc' = "processed"
    /\ UNCHANGED <<chunkVars, processor, node, node_info, reprocessed, traversalVars, configVars, ruleVars, workers, maskVars, lookup>>

\* the processed node goes through the same processor again
ProcessAgain ==
    /\ pc = "processed"
    /\ reprocessed' = ProcessLeaf(Annotated(processed.value, processed.meta))
    /\ pc' = IF reprocessed'.panic THEN "panicked" ELSE "reprocessed"
    /\ UNCHANGED <<chunkVars, processor, node, node_info, processed, traversalVars, configVars, ruleVars, workers, maskVars, lookup>>

NextNode == ProcessString \/ ProcessPrimitive \/ ProcessAbsent \/ ProcessAgain

SpecNode == InitNode /\ [][NextNode]_vars

----------------------------------------------------------------------------
(* Claims about the leaf processing *)

\* a string node with a PII kind went through process_string and came back
StringProcessed ==
    /\ pc \in {"processed", "reprocessed"}
    /\ IsString(node)
    /\ IsSome(node_info.pii_kind)

\* the value of a string node, and of a node that came back as a string
TextOf(a) == Unwrap(a.value).s

\* the rules of the application of the node's PII kind
NodeRules == RulesOf(processor.applications, Unwrap(node_info.pii_kind))
NodeRuleIds == {NodeRules[i].id : i \in 1..Len(NodeRules)}

\* the notes of the remarks of a meta
RemarkRuleIds(m) == {m.remarks[i].note.rule_id : i \in 1..Len(m.remarks)}

\* C4: whenever a string node with a PII kind comes out as a string whose
\* byte length differs from the one it had before and the input meta had no
\* original_length, the output meta carries original_length = the byte
\* length before processing; in every other case original_length is the one
\* of the input meta.
C4_OriginalLengthRecorded ==
    StringProcessed =>
        IF /\ IsString(processed)
           /\ ByteLen(TextOf(processed)) # ByteLen(TextOf(node))
           /\ node.meta.original_length = None
        THEN processed.meta.original_length = Some(ByteLen(TextOf(node)))
        ELSE processed.meta.original_length = node.meta.original_length

C4_Witness ==
    /\ StringProcessed
    /\ IsString(processed)
    /\ ByteLen(TextOf(processed)) < ByteLen(TextOf(node))
    /\ Len(TextOf(processed)) = Len(TextOf(node))
    /\ node.meta.original_length = None
    /\ processed.meta.original_length = Some(ByteLen(TextOf(node)))

\* a node whose application is one mask rule over a pattern, and which held
\* no remark before the rule was applied for the first time
MaskedTwice ==
    /\ pc = "reprocessed"
    /\ StringProcessed
    /\ node.meta.remarks = << >>
    /\ Len(NodeRules) = 1
    /\ NodeRules[1].spec.ty.tag = "Pattern"
    /\ IsSome(NodeRules[1].spec.redaction)
    /\ Unwrap(NodeRules[1].spec.redaction).method = "mask"

\* C7: applying a mask rule to the string and meta that a previous
\* application of the same rule produced yields the same string and the
\* same remarks list, with no new remark.
C7_MaskIdempotent ==
    MaskedTwice =>
        /\ reprocessed.value = processed.value
        /\ reprocessed.meta.remarks = processed.meta.remarks

\* C8: whenever processing turns a node's value from present to absent, the
\* output meta holds a remark that carries the id of a rule of the node's
\* application and that the input meta did not hold.
C8_RemovalRecordsRemark ==
    (/\ pc \in {"processed", "reprocessed"}
     /\ IsSome(node.value)
     /\ processed.value = None)
    => \E i \in 1..Len(processed.meta.remarks) :
          /\ processed.meta.remarks[i].note.rule_id \in NodeRuleIds
          /\ \A j \in 1..Len(node.meta.remarks) :
                node.meta.remarks[j] # processed.meta.remarks[i]

\* C9: whenever the processor returns a string node whose text differs from
\* the input text, the output meta holds at least one remark produced by a
\* rule of the application of the node's PII kind.
C9_ModificationRecordsRemark ==
    (/\ StringProcessed
     /\ IsString(processed)
     /\ TextOf(processed) # TextOf(node))
    => RemarkRuleIds(processed.meta) \cap NodeRuleIds # {}

\* a primitive scalar node with a PII kind went through its process_* method
ScalarProcessed ==
    /\ pc \in {"processed", "reprocessed"}
    /\ IsPrimitive(node)
    /\ IsSome(node_info.pii_kind)

\* what pii_process_value returns for the node
ValueOfNode ==
    pii_process_value(processor.applications, node, Unwrap(node_info.pii_kind))

SameVariant(a, b) ==
    IsSome(a.value) /\ IsSome(b.value) /\ Unwrap(a.value).ty = Unwrap(b.value).ty

\* what pii_process_chunks returns for the string node
ChunksOfNode ==
    pii_process_chunks(processor.applications,
                       chunks_from_str(TextOf(node), node.meta), node.meta,
                       Unwrap(node_info.pii_kind))

\* C11: for every primitive scalar node with a PII kind (a string node when
\* its rewrite goes through pii_process_value), if pii_process_value returns
\* a value of another variant than the input, the output value is None and
\* the output meta is the meta that pii_process_value returned; if the
\* variant is the same, the returned value is kept.
C11_OtherVariantCoerced ==
    /\ ScalarProcessed =>
          IF SameVariant(ValueOfNode, node)
          THEN processed.value = ValueOfNode.value /\ processed.meta = ValueOfNode.meta
          ELSE processed.value = None /\ processed.meta = ValueOfNode.meta
    /\ (StringProcessed /\ ~ChunksOfNode.ok) =>
          IF SameVariant(ValueOfNode, node)
          THEN processed.value = ValueOfNode.value
          ELSE processed.value = None /\ processed.meta = ValueOfNode.meta

\* a scalar that came back as None because a rule made a String of it
C11_Witness ==
    /\ ScalarProcessed
    /\ IsString(ValueOfNode)
    /\ Len(ValueOfNode.meta.remarks) > Len(node.meta.remarks)
    /\ processed.value = None
    /\ processed.meta = ValueOfNode.meta

\* C13: a primitive scalar node (bool, integer, float, string) processed
\* with pii_kind None comes back with value and meta identical to the
\* input, for every rule config.
C13_PassThroughWithoutKind ==
    (/\ pc \in {"processed", "reprocessed"}
     /\ IsString(node) \/ IsPrimitive(node)
     /\ node_info.pii_kind = None)
    => processed.value = node.value /\ processed.meta = node.meta /\ ~processed.panic

\* a scalar without a PII kind, and a rule that would have replaced it
C13_Witness ==
    /\ pc = "processed"
    /\ IsPrimitive(node)
    /\ node_info.pii_kind = None
    /\ "freeform" \in DOMAIN processor.applications
    /\ pii_process_value(processor.applications, node, "freeform") # node
    /\ processed.value = node.value

\* the rules of the node whose process_value returns Ok for it
AcceptingValueRules ==
    {i \in 1..Len(NodeRules) : process_value(NodeRules[i], node).ok}

\* the rule whose process_value is the one applied to the node
FirstAccepting ==
    NodeRules[CHOOSE i \in AcceptingValueRules : \A j \in AcceptingValueRules : i <= j]

\* a `remove` rule with no redaction is the rule applied to the string node
RemoveApplied ==
    /\ StringProcessed
    /\ ~ChunksOfNode.ok
    /\ AcceptingValueRules # {}
    /\ FirstAccepting.spec.ty.tag = "Remove"
    /\ FirstAccepting.spec.redaction = None

\* C17: when a `remove` rule with no redaction is the rule applied to a
\* present string node of its PII kind, the output value is None, the
\* output meta gains exactly one remark, carrying the rule id and the
\* rule's note text and no range, and original_length stays as it was.
C17_RemoveOnString ==
    RemoveApplied =>
        /\ processed.value = None
        /\ processed.meta =
              [node.meta EXCEPT !.remarks =
                  Append(@, [note |-> [rule_id |-> FirstAccepting.id,
                                       note |-> FirstAccepting.spec.note],
                             range |-> None])]

\* the remove_ip rule of the test, after a rule that does not accept
C17_Witness ==
    /\ RemoveApplied
    /\ Len(NodeRules) = 2
    /\ FirstAccepting = NodeRules[2]
    /\ FirstAccepting.spec.note = Some("IP address removed")
    /\ node.meta.remarks # << >>
    /\ processed.value = None
    /\ processed.meta.original_length = None

\* the rules of the node whose process_chunks returns Err
FailingChunkRules ==
    {i \in 1..Len(NodeRules) : ~process_chunks(NodeRules[i], << >>, DefaultMeta).ok}

\* what process_string makes of the fallback pii_process_value on the node
FallbackOfNode ==
    FallbackResult(
        pii_process_value(processor.applications, node, Unwrap(node_info.pii_kind)),
        ByteLen(TextOf(node)))

\* C10: for a string node with a PII kind, a rule whose process_chunks
\* returns Err has its process_value applied to the string as a fallback;
\* if process_value returns Err too, for every rule, the node's value and
\* meta come back unchanged; no error reaches the caller.
C10_FallbackOnRuleFailure ==
    StringProcessed =>
        /\ (\E i \in FailingChunkRules : process_value(NodeRules[i], node).ok)
              => processed.value = FallbackOfNode.value
        /\ (/\ FailingChunkRules = 1..Len(NodeRules)
            /\ \A i \in 1..Len(NodeRules) : ~process_value(NodeRules[i], node).ok)
              => /\ processed.value = node.value
                 /\ processed.meta = node.meta
        /\ ~processed.panic

\* the value of the node is absent: None, or Value::Null
AbsentNode == node.value = None \/ node.value = Some(ScalarValue("Null", 0))

\* C29: a node whose value is absent (None) or is Value::Null comes back
\* with value and meta identical to the input, for every PII kind and every
\* rule config: no Remove or Replace rule adds a remark to it or puts a
\* replacement value in its place.
C29_AbsentUntouched ==
    (pc \in {"processed", "reprocessed", "panicked"} /\ AbsentNode) =>
        /\ processed = Processed(node, FALSE)
        /\ pc # "processed" => reprocessed = Processed(node, FALSE)

\* a None of freeform whose application starts with a Remove rule, and a
\* Null whose application replaces
C29_Witness ==
    /\ pc = "reprocessed"
    /\ AbsentNode
    /\ node_info.pii_kind = Some("freeform")
    /\ NodeRules # << >>
    /\ NodeRules[1].spec.ty.tag = "Remove"
    /\ processed = Processed(node, FALSE)

\* the ranged remarks of the input are on a string and within it
RangesOnStringOnly(a) ==
    \A i \in 1..Len(a.meta.remarks) :
        IsSome(a.meta.remarks[i].range) =>
            IsString(a) /\ InBounds(Unwrap(a.value).s, a.meta.remarks[i])

\* C30: after processing, a remark that carries a byte range is found only
\* in the meta of a node whose output value is a string, and its range lies
\* within the byte length of that string; a node whose output value is None
\* or a scalar that is no string holds only range-less remarks.
C30_RangedRemarksOnStringsOnly ==
    (pc = "processed" /\ RangesOnStringOnly(node)) =>
        RangesOnStringOnly(Annotated(processed.value, processed.meta))

----------------------------------------------------------------------------
(* The traversal of Processor::process_value and ProcessAnnotatedValue as  *)
(* a state machine: call_stack holds the containers whose items are being  *)
(* processed, outermost first; the value that is traversed is drawn item   *)
(* by item.                                                                *)

\* deepest nesting of containers in the value
MaxDepth == 3
\* most items of an Array or a Map
MaxWidth == 2

ContainerVariants == {"Array", "Map", "Values"}
LeafVariants == {"String", "U64", "Null"}
PiiKinds == {"freeform", "ip", "id", "username", "sensitive", "name", "email", "databag"}
Caps == {"summary", "message", "path", "short_path", "databag"}

\* the infos a container field is declared with
RootInfos ==
    {ValueInfo(k, c) : k \in {None, Some("freeform"), Some("databag")},
                       c \in {None, Some("summary"), Some("databag")}}

\* a container being processed: todo is the number of its items still to go
Frame(variant, info, todo) == [variant |-> variant, info |-> info, todo |-> todo]

\* a process_* call with `info`, derived from the info of the container
Call(variant, info, derived_from, depth) ==
    [variant |-> variant, info |-> info, derived_from |-> derived_from, depth |-> depth]

\* Values { values, other } has the two fields; an Array or a Map its items
Widths(variant) == IF variant = "Values" THEN {2} ELSE 0..MaxWidth

InitTraversal ==
    /\ MaskIdle
    /\ LookupIdle
    /\ RulesIdle
    /\ WorkersIdle
    /\ ChunksIdle
    /\ NodeIdle
    /\ ConfigIdle
    /\ pc = "traverse"
    /\ \E variant \in ContainerVariants, info \in RootInfos :
          /\ \E todo \in Widths(variant) : call_stack = <<Frame(variant, info, todo)>>
          /\ call = Call(variant, info, info, 1)

Top == call_stack[Len(call_stack)]

\* the stack once the container on top is left with one item less
ItemTaken == [call_stack EXCEPT ![Len(call_stack)].todo = @ - 1]

\* process_value(item, &info.derive()) for an item of variant `variant`:
\* a container is entered, a leaf is processed on the spot
ProcessItem(variant) ==
    /\ call' = Call(variant, derive(Top.info), Top.info, Len(call_stack) + 1)
    /\ IF variant \in ContainerVariants
       THEN /\ Len(call_stack) < MaxDepth
            /\ \E todo \in Widths(variant) :
                  call_stack' = Append(ItemTaken, Frame(variant, derive(Top.info), todo))
       ELSE call_stack' = ItemTaken
    /\ pc' = pc
    /\ UNCHANGED <<chunkVars, nodeVars, configVars, ruleVars, workers, maskVars, lookup>>

\* processor.rs:131-137 and 313-327
ProcessArrayItem ==
    /\ pc = "traverse"
    /\ call_stack # << >>
    /\ Top.variant = "Array"
    /\ Top.todo > 0
    /\ \E variant \in ContainerVariants \cup LeafVariants : ProcessItem(variant)

\* processor.rs:138-145 and 329-352
ProcessMapEntry ==
    /\ pc = "traverse"
    /\ call_stack # << >>
    /\ Top.variant = "Map"
    /\ Top.todo > 0
    /\ \E variant \in ContainerVariants \cup LeafVariants : ProcessItem(variant)

\* processor.rs:296-311: `values` is an Array and `other` a Map
ProcessValuesField ==
    /\ pc = "traverse"
    /\ call_stack # << >>
    /\ Top.variant = "Values"
    /\ Top.todo > 0
    /\ Len(call_stack) < MaxDepth
    /\ ProcessItem(IF Top.todo = 2 THEN "Array" ELSE "Map")

\* processor.rs:313-352 for a field of Values that is Annotated(None, _):
\* annotated.map has no value to process
SkipValuesField ==
    /\ pc = "traverse"
    /\ call_stack # << >>
    /\ Top.variant = "Values"
    /\ Top.todo > 0
    /\ call_stack' = ItemTaken
    /\ UNCHANGED <<pc, call, chunkVars, nodeVars, configVars, ruleVars, workers, maskVars, lookup>>

\* the container on top has no item left: its process_* call returns
ReturnFromContainer ==
    /\ pc = "traverse"
    /\ call_stack # << >>
    /\ Top.todo = 0
    /\ call_stack' = SubSeq(call_stack, 1, Len(call_stack) - 1)
    /\ pc' = IF Len(call_stack) = 1 THEN "traversed" ELSE "traverse"
    /\ UNCHANGED <<call, chunkVars, nodeVars, configVars, ruleVars, workers, maskVars, lookup>>

NextTraversal ==
    \/ ProcessArrayItem
    \/ ProcessMapEntry
    \/ ProcessValuesField
    \/ SkipValuesField
    \/ ReturnFromContainer

SpecTraversal == InitTraversal /\ [][NextTraversal]_vars

----------------------------------------------------------------------------
(* Claims about the traversal *)

\* the PII kind and the cap that the items of a container with `info` get
KeptIffDatabag(o) == IF o = Some("databag") THEN Some("databag") ELSE None

\* C5: the children of a container traversed with pii_kind databag are
\* processed with pii_kind databag, at every nesting depth; the children of
\* a container traversed with any other pii_kind, or none, are processed
\* with pii_kind None; derive keeps each of pii_kind and cap iff it is
\* databag and clears it otherwise.
C5_DatabagHereditary ==
    pc = "traverse" =>
        /\ \A d \in 2..Len(call_stack) :
              /\ call_stack[d].info.pii_kind = KeptIffDatabag(call_stack[1].info.pii_kind)
              /\ call_stack[d].info.pii_kind = KeptIffDatabag(call_stack[d - 1].info.pii_kind)
              /\ call_stack[d].info.cap = KeptIffDatabag(call_stack[d - 1].info.cap)
        /\ call.depth > 1 =>
              /\ call.info.pii_kind = KeptIffDatabag(call_stack[1].info.pii_kind)
              /\ call.info.pii_kind = KeptIffDatabag(call.derived_from.pii_kind)
              /\ call.info.cap = KeptIffDatabag(call.derived_from.cap)

C5_Witness ==
    /\ pc = "traverse"
    /\ Len(call_stack) = 3
    /\ call_stack[1].info = ValueInfo(Some("databag"), Some("summary"))
    /\ call_stack[2].variant = "Values"
    /\ call.variant = "String"
    /\ call.depth = 4
    /\ call.info = ValueInfo(Some("databag"), None)

----------------------------------------------------------------------------
(* builtinrules.rs: the catalog of built-in rules *)

\* an entry of the catalog: rule_alias!(target), or a rule of its own
BuiltinAlias(target) == [alias |-> Some(target), tag |-> "Alias"]
BuiltinRule(tag) == [alias |-> None, tag |-> tag]

\* a catalog in which "@ip:replace" is an alias of "@ip"
BUILTIN_RULES_with_cycle ==
    [id \in {"@ip", "@ip:replace", "@ip:hash",
             "@email", "@email:mask", "@email:replace", "@email:hash",
             "@creditcard", "@creditcard:mask", "@creditcard:replace",
             "@creditcard:hash"} |->
        CASE id = "@ip" -> BuiltinAlias("@ip:replace")
          [] id = "@ip:replace" -> BuiltinAlias("@ip")
          [] id = "@email" -> BuiltinAlias("@email:replace")
          [] id = "@creditcard" -> BuiltinAlias("@creditcard:mask")
          [] id = "@ip:hash" -> BuiltinRule("Ip")
          [] id \in {"@email:mask", "@email:replace", "@email:hash"} -> BuiltinRule("Email")
          [] OTHER -> BuiltinRule("Creditcard")]

\* declare_builtin_rules!
BUILTIN_RULES ==
    [id \in {"@ip", "@ip:replace", "@ip:hash",
             "@email", "@email:mask", "@email:replace", "@email:hash",
             "@creditcard", "@creditcard:mask", "@creditcard:replace",
             "@creditcard:hash"} |->
        CASE id = "@ip" -> BuiltinAlias("@ip:replace")
          [] id = "@email" -> BuiltinAlias("@email:replace")
          [] id = "@creditcard" -> BuiltinAlias("@creditcard:mask")
          [] id \in {"@ip:replace", "@ip:hash"} -> BuiltinRule("Ip")
          [] id \in {"@email:mask", "@email:replace", "@email:hash"} -> BuiltinRule("Email")
          [] OTHER -> BuiltinRule("Creditcard")]

----------------------------------------------------------------------------
(* rule.rs: the construction of a RuleBasedPiiProcessor *)

\* RuleConfig { rules, applications }
RuleConfig(rules, applications) == [rules |-> rules, applications |-> applications]

\* the order of PiiKind, in which a BTreeMap<PiiKind, _> is iterated
PiiKindOrder ==
    <<"freeform", "ip", "id", "username", "sensitive", "name", "email", "databag">>

\* Result<RuleBasedPiiProcessor, BadRuleConfig>
NewOk(applications) ==
    [ok |-> TRUE, applications |-> applications, bad_reference |-> None]
BadReference(id) ==
    [ok |-> FALSE, applications |-> << >>, bad_reference |-> Some(id)]

\* BTreeMap::insert
Insert(map, key, value) ==
    [k \in DOMAIN map \cup {key} |-> IF k = key THEN value ELSE map[k]]

\* lines 483-492: the rules of one application, from its i-th id on
RECURSIVE ResolveRules(_, _, _, _)
ResolveRules(c, ids, i, rules) ==
    IF i > Len(ids) THEN NewOk(rules)
    ELSE IF ids[i] \in DOMAIN c.rules
    THEN ResolveRules(c, ids, i + 1, Append(rules, Rule(ids[i], c.rules[ids[i]])))
    ELSE BadReference(ids[i])

\* lines 481-494: the applications, from the k-th PII kind on
RECURSIVE NewFrom(_, _, _)
\* line 493, or the return of line 490
AfterApplication(c, k, applications, resolved) ==
    IF resolved.ok
    THEN NewFrom(c, k + 1, Insert(applications, PiiKindOrder[k], resolved.applications))
    ELSE resolved
NewFrom(c, k, applications) ==
    IF k > Len(PiiKindOrder) THEN NewOk(applications)
    ELSE IF PiiKindOrder[k] \notin DOMAIN c.applications
    THEN NewFrom(c, k + 1, applications)
    ELSE AfterApplication(c, k, applications,
                          ResolveRules(c, c.applications[PiiKindOrder[k]], 1, << >>))

\* RuleBasedPiiProcessor::new
new(c) == NewFrom(c, 1, << >>)

----------------------------------------------------------------------------
(* The construction as a state machine *)

\* most rule ids in the application of a PII kind
MaxApplications == 2

\* ids of the rules a user config defines, and ids its applications name
ConfigRuleIds == {"my_rule", "@ip"}
ApplicationIds == {"my_rule", "missing", "@ip", "@ip:replace"}
ConfigKinds == {"freeform", "ip"}

ConfigRules ==
    {[id \in ids |-> UserRules.remove_ip] : ids \in SUBSET ConfigRuleIds}
ConfigApplications ==
    UNION {[kinds -> SeqsUpTo(ApplicationIds, MaxApplications)] :
              kinds \in SUBSET ConfigKinds}

InitConfig ==
    /\ MaskIdle
    /\ LookupIdle
    /\ RulesIdle
    /\ WorkersIdle
    /\ ChunksIdle
    /\ NodeIdle
    /\ TraversalIdle
    /\ pc = "config"
    /\ cfg \in {RuleConfig(r, a) : r \in ConfigRules, a \in ConfigApplications}
    /\ new_result = NotConstructed

\* rule.rs:478-500
New ==
    /\ pc = "config"
    /\ new_result' = new(cfg)
    /\ pc' = "constructed"
    /\ UNCHANGED <<cfg, chunkVars, nodeVars, traversalVars, ruleVars, workers, maskVars, lookup>>

NextConfig == New

SpecConfig == InitConfig /\ [][NextConfig]_vars

----------------------------------------------------------------------------
(* Claims about the construction *)

\* an id is resolved by the user rules, or else by the catalog, whose
\* aliases are chased (at most `fuel` of them)
RECURSIVE Resolves(_, _, _)
Resolves(c, id, fuel) ==
    IF id \in DOMAIN c.rules THEN TRUE
    ELSE IF id \notin DOMAIN BUILTIN_RULES \/ fuel = 0 THEN FALSE
    ELSE IF BUILTIN_RULES[id].alias = None THEN TRUE
    ELSE Resolves(c, Unwrap(BUILTIN_RULES[id].alias), fuel - 1)

\* the ids that the applications of a config list and nothing resolves
Unresolved(c) ==
    {id \in UNION {{c.applications[k][i] : i \in 1..Len(c.applications[k])} :
                      k \in DOMAIN c.applications} :
        ~Resolves(c, id, Cardinality(DOMAIN BUILTIN_RULES))}

\* C6: RuleBasedPiiProcessor::new fails, with BadReference carrying the
\* offending id, iff some id listed in applications is still unresolved
\* after the user rules, the built-in catalog and the chasing of aliases;
\* an id that names a built-in rule and no user rule is accepted.
C6_FailsIffUnresolved ==
    pc = "constructed" =>
        /\ ~new_result.ok <=> Unresolved(cfg) # {}
        /\ ~new_result.ok => Unwrap(new_result.bad_reference) \in Unresolved(cfg)

----------------------------------------------------------------------------
(* Processor::process_value over a whole payload: a container of leaves    *)
(* and of containers, processed with the info its field is declared with.  *)

\* Value::Array(Vec<Annotated<Value>>)
ArrayValue(items) == [ty |-> "Array", s |-> << >>, n |-> 0, items |-> items]
\* Value::Map(BTreeMap<String, Annotated<Value>>): the entries in key order
MapEntry(key, value) == [key |-> key, value |-> value]
MapValue(entries) == [ty |-> "Map", s |-> << >>, n |-> 0, items |-> entries]

IsContainer(a) == IsSome(a.value) /\ Unwrap(a.value).ty \in {"Array", "Map"}

\* val.into_iter(): the items of an Array, the values of a Map
ItemsOf(v) ==
    IF v.ty = "Map" THEN [i \in 1..Len(v.items) |-> v.items[i].value] ELSE v.items

\* a slip: the items that came back without a value are left out
Rebuilt_without_removed(annotated, results) ==
    LET v == Unwrap(annotated.value)
        kept == SelectSeq([i \in 1..Len(results) |-> i],
                          LAMBDA i : IsSome(results[i].value))
    IN  Processed(
            Annotated(
                Some([v EXCEPT !.items =
                        [j \in 1..Len(kept) |->
                            IF v.ty = "Map"
                            THEN MapEntry(v.items[kept[j]].key,
                                          Annotated(results[kept[j]].value,
                                                    results[kept[j]].meta))
                            ELSE Annotated(results[kept[j]].value,
                                           results[kept[j]].meta)]]),
                annotated.meta),
            \E i \in 1..Len(results) : results[i].panic)

\* lines 132-136 and 139-144: the container rebuilt from the processed items
Rebuilt(annotated, results) ==
    Processed(
        Annotated(
            Some([Unwrap(annotated.value) EXCEPT !.items =
                    [i \in 1..Len(results) |->
                        IF Unwrap(annotated.value).ty = "Map"
                        THEN MapEntry(@[i].key,
                                      Annotated(results[i].value, results[i].meta))
                        ELSE Annotated(results[i].value, results[i].meta)]]),
            annotated.meta),
        \E i \in 1..Len(results) : results[i].panic)

RECURSIVE processor_process_value(_, _, _)

\* self.process_value(item, &info.derive()) for every item
ItemResults(applications, items, info) ==
    [i \in 1..Len(items) |-> processor_process_value(applications, items[i], derive(info))]

\* Processor::process_value
processor_process_value(applications, annotated, info) ==
    IF IsString(annotated) THEN process_string(applications, annotated, info)
    ELSE IF IsPrimitive(annotated) THEN process_primitive(applications, annotated, info)
    ELSE IF IsContainer(annotated)
    THEN Rebuilt(annotated,
                 ItemResults(applications, ItemsOf(Unwrap(annotated.value)), info))
    ELSE Processed(annotated, FALSE)

----------------------------------------------------------------------------
(* The processing of a payload as a state machine: a container field of an *)
(* event goes through process_value with the info the field declares.      *)

\* (b(a+)): a group nested in a group
Nested_a == Regex(<<Atom({"b"}, FALSE), Atom({"a"}, TRUE)>>, <<<<1, 2>>, <<2, 2>>>>)

\* rules of the applications of a payload, after test_basic_stripping
PayloadRules ==
    [remove_foo |-> UserRules.remove_foo,
     remove_key |-> RuleSpec(RemovePairType(Key_foo), None, None),
     remove_ip  |-> UserRules.remove_ip,
     mask_a     |-> UserRules.mask_a,
     nested     |-> RuleSpec(PatternType(Nested_a, Some({1, 2})),
                             Some(ReplaceWith(StringValue(<<"[", "u", "]">>))), None)]

PayloadRuleLists ==
    {[i \in 1..Len(ids) |-> Rule(ids[i], PayloadRules[ids[i]])] :
        ids \in SeqsUpTo(DOMAIN PayloadRules, MaxRules)}

\* "foo" as the path of a meta
Path_foo == Meta(<< >>, << >>, None, Some(<<"f", "o", "o">>))

PayloadLeaves ==
    {Annotated(Some(v), m) :
        v \in {StringValue(<<"b", "a">>), ScalarValue("U64", 42), ScalarValue("Bool", 1)},
        m \in {DefaultMeta, Path_foo}}

\* a container over the items of a set: an Array of up to MaxWidth items, or
\* a Map with the keys bar or foo or both
ContainersOver(items) ==
    {ArrayValue(q) : q \in SeqsUpTo(items, MaxWidth)}
        \cup {MapValue(<< >>)}
        \cup {MapValue(<<MapEntry(k, a)>>) : k \in {"bar", "foo"}, a \in items}
        \cup {MapValue(<<MapEntry("bar", a), MapEntry("foo", b)>>) :
                 a \in items, b \in items}

\* the containers an item of the payload may be
InnerContainers ==
    {Annotated(Some(ArrayValue(<<Annotated(Some(StringValue(<<"b", "a">>)), DefaultMeta)>>)),
               DefaultMeta),
     Annotated(Some(MapValue(<<MapEntry("foo",
                                        Annotated(Some(ScalarValue("U64", 42)), Path_foo))>>)),
               Meta(<<Remark(EarlierNote)>>, << >>, None, None)),
     Annotated(Some(ArrayValue(<< >>)), Path_foo)}

Payloads ==
    {Annotated(Some(v), m) :
        v \in ContainersOver(PayloadLeaves \cup InnerContainers),
        m \in {DefaultMeta, Meta(<<Remark(EarlierNote)>>, << >>, None, None)}}

InitPayload ==
    /\ MaskIdle
    /\ LookupIdle
    /\ RulesIdle
    /\ WorkersIdle
    /\ ChunksIdle
    /\ TraversalIdle
    /\ ConfigIdle
    /\ pc = "payload"
    /\ processor \in {[applications |-> [k \in {"databag"} |-> rules]] :
                         rules \in PayloadRuleLists}
    /\ node \in Payloads
    /\ node_info \in {ValueInfo(Some(k), None) : k \in {"databag", "freeform"}}
    /\ processed = NotProcessed
    /\ reprocessed = NotProcessed

\* rule.rs:508-517 for a field of the event (rule.rs:633-641)
ProcessField ==
    /\ pc = "payload"
    /\ processed' = processor_process_value(processor.applications, node, node_info)
    /\ pc' = IF processed'.panic THEN "panicked" ELSE "returned"
    /\ UNCHANGED <<chunkVars, processor, node, node_info, reprocessed,
                   traversalVars, configVars, ruleVars, workers, maskVars, lookup>>

NextPayload == ProcessField

SpecPayload == InitPayload /\ [][NextPayload]_vars

----------------------------------------------------------------------------
(* Claims about the processing of a payload *)

\* C12: for every accepted rule config (every rule type, every
\* replace_groups set, nested capture groups too) and every payload, the
\* processing completes and returns a payload: no failed unwrap, no inverted
\* string slice.
C12_NeverCrashes == pc # "panicked"

\* the output has the shape of the input: an Array the same number of items,
\* a Map the same keys in the same order, a container its own meta
RECURSIVE SameShape(_, _)
SameShape(in, out) ==
    IF ~IsContainer(in) THEN ~IsContainer(out)
    ELSE /\ IsContainer(out)
         /\ out.meta = in.meta
         /\ Unwrap(out.value).ty = Unwrap(in.value).ty
         /\ Len(Unwrap(out.value).items) = Len(Unwrap(in.value).items)
         /\ \A i \in 1..Len(Unwrap(in.value).items) :
               IF Unwrap(in.value).ty = "Map"
               THEN /\ Unwrap(out.value).items[i].key = Unwrap(in.value).items[i].key
                    /\ SameShape(Unwrap(in.value).items[i].value,
                                 Unwrap(out.value).items[i].value)
               ELSE SameShape(Unwrap(in.value).items[i], Unwrap(out.value).items[i])

\* C14: processing an Array returns an array with the same number of
\* elements in the same order, processing a Map returns a map with exactly
\* the same keys, and a container's own meta is unchanged; only the values
\* and metas of descendant leaves may differ.
C14_ShapePreserved ==
    pc = "returned" => SameShape(node, Annotated(processed.value, processed.meta))

\* a map of two entries of which one lost its value, and an array likewise
C14_Witness ==
    /\ pc = "returned"
    /\ Unwrap(node.value).ty = "Map"
    /\ Len(Unwrap(node.value).items) = 2
    /\ node.meta.remarks # << >>
    /\ IsSome(Unwrap(node.value).items[2].value.value)
    /\ Unwrap(processed.value).items[2].value.value = None
    /\ IsContainer(Unwrap(node.value).items[1].value)
    /\ Unwrap(processed.value).items[1].value # Unwrap(node.value).items[1].value

\* a databag map went through an application of one RemovePair rule
RemovePairOnMap ==
    /\ pc = "returned"
    /\ Unwrap(node.value).ty = "Map"
    /\ node_info.pii_kind = Some("databag")
    /\ Len(processor.applications["databag"]) = 1
    /\ processor.applications["databag"][1].spec.ty.tag = "RemovePair"

PairRule == processor.applications["databag"][1]
EntryIn(i) == Unwrap(node.value).items[i].value
EntryOut(i) == Unwrap(processed.value).items[i].value

\* the meta of the entry has a path and key_pattern matches the path string
PathMatches(e) ==
    IsSome(e.meta.path) /\ IsMatch(PairRule.spec.ty.pattern, Unwrap(e.meta.path))

\* process_value returns Ok with the value replaced through the redaction
\* iff the path matches, and Err with the value unchanged otherwise
PairProcessValue(e) ==
    /\ process_value(PairRule, e).ok <=> PathMatches(e)
    /\ process_value(PairRule, e).annotated =
          IF PathMatches(e) THEN replace_value(PairRule, e) ELSE e

HasRemarkOf(rule, m) ==
    \E j \in 1..Len(m.remarks) : m.remarks[j].note.rule_id = rule.id

\* the rule has no redaction, or replaces by a value of another variant
ReplacesByOtherVariant(e) ==
    \/ PairRule.spec.redaction = None
    \/ /\ Unwrap(PairRule.spec.redaction).method = "replace"
       /\ Unwrap(PairRule.spec.redaction).new_value.ty # Unwrap(e.value).ty

----------------------------------------------------------------------------
(* process_string of a PiiProcessor as a state machine, one step per rule  *)
(* of the application: chunks_from_str, the loop of pii_process_chunks,    *)
(* then chunks_to_string or the fallback to pii_process_value.             *)

\* longest string a rule is applied to
MaxScan == 3

\* [^b]b : any char but b, the NUL too, and then b
Before_b == Regex(<<Atom(AllChars \ {"b"}, FALSE), Atom({"b"}, FALSE)>>, << >>)

\* the pattern rules of the application
ScanRules ==
    [mask_a     |-> UserRules.mask_a,
     mask_not_b |-> UserRules.mask_not_b,
     username   |-> UserRules.username,
     before_b   |-> RuleSpec(PatternType(Before_b, None),
                             Some(ReplaceWith(StringValue(<<"[", "x", "]">>))), None)]

ScanRuleLists ==
    {[i \in 1..Len(ids) |-> Rule(ids[i], ScanRules[ids[i]])] :
        ids \in SeqsUpTo(DOMAIN ScanRules, MaxRules)}

ScanStrings ==
    SeqsUpTo({"a", "b"}, MaxScan) \cup {<<"a", NUL, "b">>, <<NUL, "a">>}

\* the remark lists a producer left on a string of len bytes: up to k ranges
\* from the offset `from` on, none empty, each after the one before
RECURSIVE RemarksFrom(_, _, _)
RemarksFrom(from, len, k) ==
    {<< >>} \cup
        IF k = 0 THEN {}
        ELSE UNION {{<<RemarkWithRange(EarlierNote, ft)>> \o rest :
                        rest \in RemarksFrom(ft[2], len, k - 1)} :
                    ft \in {x \in (from..len) \X (from..len) : x[1] < x[2]}}

ScanNodes ==
    UNION {{Annotated(Some(StringValue(str)), Meta(rs, << >>, None, None)) :
               rs \in RemarksFrom(0, Len(str), MaxRemarks)} :
           str \in ScanStrings}

InitRules ==
    /\ MaskIdle
    /\ LookupIdle
    /\ RulesIdle
    /\ WorkersIdle
    /\ ChunksIdle
    /\ TraversalIdle
    /\ ConfigIdle
    /\ pc = "string"
    /\ processor \in {[applications |-> [k \in {"freeform"} |-> rules]] :
                         rules \in ScanRuleLists}
    /\ node \in ScanNodes
    /\ node_info = ValueInfo(Some("freeform"), None)
    /\ processed = NotProcessed
    /\ reprocessed = NotProcessed

\* the rules of self.applications.get(&pii_kind)
LoopRules == RulesOf(processor.applications, Unwrap(node_info.pii_kind))

\* processor.rs:218-220 and rule.rs:526-527
ChunkString ==
    /\ pc = "string"
    /\ text' = Unwrap(node.value).s
    /\ meta' = node.meta
    /\ chunks' = chunks_from_str(Unwrap(node.value).s, node.meta)
    /\ next_rule' = 1
    /\ any_replaced' = FALSE
    /\ pc' = "rules"
    /\ UNCHANGED <<joined, nodeVars, traversalVars, configVars, searched, rule_input,
                   workers, maskVars, lookup>>

\* rule.rs:531-538 with r what rule.process_chunks(rv.0, rv.1) returned
RuleReturned(r) ==
    /\ chunks' = r.chunks
    /\ meta' = r.meta
    /\ any_replaced' = (any_replaced \/ r.ok)
    /\ pc' = IF r.panic THEN "panicked" ELSE "rules"

\* rule.rs:530-539: one turn of `for rule in rules`
ApplyRule ==
    /\ pc = "rules"
    /\ next_rule <= Len(LoopRules)
    /\ RuleReturned(process_chunks(LoopRules[next_rule], chunks, meta))
    /\ rule_input' = chunks
    /\ searched' = SearchString(chunks)
    /\ next_rule' = next_rule + 1
    /\ UNCHANGED <<text, joined, nodeVars, traversalVars, configVars, workers, maskVars, lookup>>

\* rule.rs:542-543 and processor.rs:221-227
JoinChunks ==
    /\ pc = "rules"
    /\ next_rule > Len(LoopRules)
    /\ any_replaced
    /\ joined' = chunks_to_string(chunks, meta)
    /\ processed' = Processed(StringReplacement(joined', ByteLen(text)), FALSE)
    /\ pc' = "done"
    /\ UNCHANGED <<text, meta, chunks, processor, node, node_info, reprocessed,
                   traversalVars, configVars, ruleVars, workers, maskVars, lookup>>

\* rule.rs:544-545 and processor.rs:228-239
FallBack ==
    /\ pc = "rules"
    /\ next_rule > Len(LoopRules)
    /\ ~any_replaced
    /\ processed' =
          Processed(
              FallbackResult(
                  pii_process_value(processor.applications,
                                    Annotated(Some(StringValue(text)), meta),
                                    Unwrap(node_info.pii_kind)),
                  ByteLen(text)),
              FALSE)
    /\ pc' = "done"
    /\ UNCHANGED <<chunkVars, processor, node, node_info, reprocessed,
                   traversalVars, configVars, ruleVars, workers, maskVars, lookup>>

NextRules == ChunkString \/ ApplyRule \/ JoinChunks \/ FallBack

SpecRules == InitRules /\ [][NextRules]_vars

----------------------------------------------------------------------------
(* Two threads process a string each through one RuleBasedPiiProcessor,    *)
(* which every method borrows as &self; a step is what a thread does       *)
(* between two reads of the processor.                                     *)

WorkerIds == {"w1", "w2"}

WorkerNodes ==
    {Annotated(Some(StringValue(str)), DefaultMeta) :
        str \in {<<"a">>, <<"b", "a">>, <<"a", "b">>}}

\* a thread that has not started on its node
Worker(a) ==
    [pc |-> "string", node |-> a, chunks |-> << >>, meta |-> DefaultMeta,
     next_rule |-> 0, any_replaced |-> FALSE, result |-> NotProcessed]

InitWorkers ==
    /\ MaskIdle
    /\ LookupIdle
    /\ RulesIdle
    /\ ChunksIdle
    /\ TraversalIdle
    /\ ConfigIdle
    /\ pc = "workers"
    /\ processor \in {[applications |-> [k \in {"freeform"} |-> rules]] :
                         rules \in ScanRuleLists}
    /\ node = Annotated(None, DefaultMeta)
    /\ node_info = ValueInfo(Some("freeform"), None)
    /\ processed = NotProcessed
    /\ reprocessed = NotProcessed
    /\ workers \in [WorkerIds -> {Worker(a) : a \in WorkerNodes}]

\* a slip: the rules of the application are drained as they are applied
AfterBorrow_drained(p) ==
    [applications |-> [k \in DOMAIN p.applications |->
                          IF p.applications[k] = << >> THEN << >>
                          ELSE Tail(p.applications[k])]]

\* &self: the processor after a method that borrowed it returned
AfterBorrow(p) == p

\* processor.rs:218-220 and rule.rs:526-527 in the thread w
WorkerChunk(w) ==
    /\ workers[w].pc = "string"
    /\ workers' = [workers EXCEPT ![w] =
          [pc |-> "rules", node |-> @.node, meta |-> @.node.meta,
           chunks |-> chunks_from_str(Unwrap(@.node.value).s, @.node.meta),
           next_rule |-> 1, any_replaced |-> FALSE, result |-> @.result]]
    /\ UNCHANGED <<pc, chunkVars, nodeVars, traversalVars, configVars, ruleVars, maskVars, lookup>>

\* the thread after rule.process_chunks(rv.0, rv.1) returned r
WorkerAfterRule(wk, r) ==
    [wk EXCEPT !.pc = IF r.panic THEN "panicked" ELSE "rules",
               !.chunks = r.chunks,
               !.meta = r.meta,
               !.any_replaced = (@ \/ r.ok),
               !.next_rule = @ + 1]

\* rule.rs:530-539: one turn of `for rule in rules` in the thread w
WorkerRule(w) ==
    /\ workers[w].pc = "rules"
    /\ workers[w].next_rule <= Len(LoopRules)
    /\ workers' = [workers EXCEPT ![w] =
          WorkerAfterRule(@, process_chunks(LoopRules[@.next_rule], @.chunks, @.meta))]
    /\ processor' = AfterBorrow(processor)
    /\ UNCHANGED <<pc, chunkVars, node, node_info, processed, reprocessed,
                   traversalVars, configVars, ruleVars, maskVars, lookup>>

\* the thread after process_string returned `annotated`
WorkerReturned(wk, annotated) ==
    [wk EXCEPT !.pc = "done", !.result = Processed(annotated, FALSE)]

\* rule.rs:542-543 and processor.rs:221-227 in the thread w
WorkerJoin(w) ==
    /\ workers[w].pc = "rules"
    /\ workers[w].next_rule > Len(LoopRules)
    /\ workers[w].any_replaced
    /\ workers' = [workers EXCEPT ![w] =
          WorkerReturned(@, StringReplacement(chunks_to_string(@.chunks, @.meta),
                                              ByteLen(Unwrap(@.node.value).s)))]
    /\ UNCHANGED <<pc, chunkVars, nodeVars, traversalVars, configVars, ruleVars, maskVars, lookup>>

\* rule.rs:544-545 and processor.rs:228-239 in the thread w
WorkerFallBack(w) ==
    /\ workers[w].pc = "rules"
    /\ workers[w].next_rule > Len(LoopRules)
    /\ ~workers[w].any_replaced
    /\ workers' = [workers EXCEPT ![w] =
          WorkerReturned(@, FallbackResult(
                                pii_process_value(processor.applications,
                                                  Annotated(@.node.value, @.meta),
                                                  Unwrap(node_info.pii_kind)),
                                ByteLen(Unwrap(@.node.value).s)))]
    /\ UNCHANGED <<pc, chunkVars, nodeVars, traversalVars, configVars, ruleVars, maskVars, lookup>>

NextWorkers ==
    \E w \in WorkerIds :
        WorkerChunk(w) \/ WorkerRule(w) \/ WorkerJoin(w) \/ WorkerFallBack(w)

SpecWorkers == InitWorkers /\ [][NextWorkers]_vars

----------------------------------------------------------------------------
(* Claims about the rules of an application *)

\* the stepwise run ends with what process_string returns in one go
StepwiseIsProcessString ==
    pc = "done" => processed = process_string(processor.applications, node, node_info)

\* a rule of the list has just been applied, and it returned
RuleApplied == pc = "rules" /\ next_rule > 1
LastRule == LoopRules[next_rule - 1]

\* the targets the last rule replaced in the search string: the whole match,
\* or the groups of replace_groups that took part in it
TargetsOfMatch(m, replace_groups) ==
    IF replace_groups = None THEN <<Unwrap(m[1])>>
    ELSE [j \in 1..Cardinality({i \in 2..Len(m) :
                                   IsSome(m[i]) /\ (i - 1) \in Unwrap(replace_groups)}) |->
             Unwrap(m[CHOOSE i \in 2..Len(m) :
                          /\ IsSome(m[i]) /\ (i - 1) \in Unwrap(replace_groups)
                          /\ Cardinality({h \in 2..i :
                                IsSome(m[h]) /\ (h - 1) \in Unwrap(replace_groups)}) = j])]

RECURSIVE TargetsOfMatches(_, _, _)
TargetsOfMatches(ms, replace_groups, k) ==
    IF k > Len(ms) THEN << >>
    ELSE TargetsOfMatch(ms[k], replace_groups)
             \o TargetsOfMatches(ms, replace_groups, k + 1)

LastTargets ==
    TargetsOfMatches(CapturesIter(RegexOf(LastRule.spec.ty), searched, 1),
                     LastRule.spec.ty.replace_groups, 1)

\* the char at the index p of the search string lies inside a target
InTarget(targets, p) ==
    \E j \in 1..Len(targets) : targets[j][1] < p /\ p <= targets[j][2]

\* the index in the search string of the NUL of the k-th Redaction chunk
RECURSIVE NulIndex(_, _, _)
NulIndex(str, k, from) ==
    IF str[from] = NUL
    THEN IF k = 1 THEN from ELSE NulIndex(str, k - 1, from + 1)
    ELSE NulIndex(str, k, from + 1)

\* the Redaction chunks of the input whose NUL lies outside all targets
OutsideTargets(cs, str, targets) ==
    LET reds == ReplacementChunks(cs)
        kept == SelectSeq([k \in 1..Len(reds) |-> k],
                          LAMBDA k : ~InTarget(targets, NulIndex(str, k, 1)))
    IN  [j \in 1..Len(kept) |-> reds[kept[j]]]

\* the search string with one NUL in the place of every target
RECURSIVE TargetsAsNul(_, _, _, _)
TargetsAsNul(str, targets, j, pos) ==
    IF j > Len(targets) THEN Slice(str, pos, Len(str))
    ELSE Slice(str, pos, targets[j][1]) \o <<NUL>>
             \o TargetsAsNul(str, targets, j + 1, targets[j][2])

\* the Redaction chunks that kept the rule id of an earlier rule
OfEarlierRules(cs, rule) ==
    SelectSeq(cs, LAMBDA c : c.kind = "Redaction" /\ c.note.rule_id # rule.id)

\* C19: after apply_regex_to_chunks, every Redaction chunk of the input that
\* lies outside all match targets is in the output exactly once, with its
\* text and rule id, at its place relative to the surrounding text and in
\* the original order; every Redaction chunk whose NUL lies inside a match
\* target is consumed and is not in the output.
C19_SentinelPlacement ==
    (RuleApplied /\ OfEarlierRules(rule_input, LastRule) = ReplacementChunks(rule_input)) =>
        /\ OfEarlierRules(chunks, LastRule) = OutsideTargets(rule_input, searched, LastTargets)
        /\ SearchString(chunks) = TargetsAsNul(searched, LastTargets, 1, 0)

\* the application of the databag is one Pattern rule with replace_groups set
GroupRuleOnArray ==
    /\ pc # "payload"
    /\ node_info.pii_kind = Some("databag")
    /\ Unwrap(node.value).ty = "Array"
    /\ Len(processor.applications["databag"]) = 1
    /\ processor.applications["databag"][1].spec.ty.tag = "Pattern"
    /\ IsSome(processor.applications["databag"][1].spec.ty.replace_groups)

\* the spans of the selected groups that took part in the matches of str
GroupTargets(rule, str) ==
    TargetsOfMatches(CapturesIter(rule.spec.ty.pattern, str, 1),
                     rule.spec.ty.replace_groups, 1)

\* C21: with replace_groups set, the span of every participating group
\* whose index is in the set becomes one Redaction chunk and all other text
\* is emitted as it was: a string item of the payload comes back with one
\* redaction in the place of every such span and the rest verbatim.
C21_SelectedGroupsReplaced ==
    GroupRuleOnArray =>
        /\ pc = "returned"
        /\ \A i \in 1..Len(Unwrap(node.value).items) :
               LET in == Unwrap(node.value).items[i]
                   out == Unwrap(processed.value).items[i]
               IN  (IsString(in) /\ in.meta.remarks = << >>) =>
                       /\ IsString(out)
                       /\ SearchString(chunks_from_str(Unwrap(out.value).s, out.meta))
                              = TargetsAsNul(Unwrap(in.value).s,
                                             GroupTargets(processor.applications["databag"][1],
                                                          Unwrap(in.value).s),
                                             1, 0)

\* the text of the Text chunks, the NULs left out
RECURSIVE TextOutsideRedactions(_)
TextOutsideRedactions(cs) ==
    IF cs = << >> THEN << >>
    ELSE (IF Head(cs).kind = "Text"
          THEN SelectSeq(Head(cs).text, LAMBDA c : c # NUL) ELSE << >>)
             \o TextOutsideRedactions(Tail(cs))

\* the chunks after the first n rules of the list
ChunksAfter(n) ==
    ChunkRules(SubSeq(LoopRules, 1, n), 1,
               ChunksErr(chunks_from_str(text, node.meta), node.meta)).chunks

\* C20: the rules of an application are applied in list order, each to the
\* chunks the rule before it produced, and the search string of a rule holds
\* one NUL per Redaction chunk handed to it and none of the chunk's text,
\* the NULs of the Text chunks being stripped: as many NULs as Redaction
\* chunks.
C20_RulesInOrderOnSentinels ==
    next_rule > 1 =>
        /\ rule_input = ChunksAfter(next_rule - 2)
        /\ chunks = ChunksAfter(next_rule - 1)
        /\ Cardinality({i \in 1..Len(searched) : searched[i] = NUL})
              = Cardinality({i \in 1..Len(rule_input) : rule_input[i].kind = "Redaction"})
        /\ SelectSeq(searched, LAMBDA c : c # NUL) = TextOutsideRedactions(rule_input)

\* the string had a NUL, which the first rule stripped, and the second rule
\* was handed a redaction of the first, one NUL in its search string
C20_Witness ==
    /\ RuleApplied
    /\ next_rule = 3
    /\ \E i \in 1..Len(text) : text[i] = NUL
    /\ \E i \in 1..Len(rule_input) :
          rule_input[i].kind = "Redaction" /\ rule_input[i].note.rule_id = LoopRules[1].id
    /\ Cardinality({i \in 1..Len(searched) : searched[i] = NUL}) = 1
    /\ Len(searched) > 1
    /\ chunks # rule_input

\* the replacements the rules i.. of the list with the id `id` made
RECURSIVE MadeBy(_, _)
MadeBy(id, i) ==
    IF i > Len(LoopRules) THEN 0
    ELSE MadeBy(id, i + 1) +
         (IF LoopRules[i].id # id THEN 0
          ELSE Len(TargetsOfMatches(
                       CapturesIter(RegexOf(LoopRules[i].spec.ty),
                                    SearchString(ChunksAfter(i - 1)), 1),
                       LoopRules[i].spec.ty.replace_groups, 1)))

RemarksOf(rs, id) == SelectSeq(rs, LAMBDA r : r.note.rule_id = id)

\* the text is one that the redaction of the rule produces
ProducedByRule(rule, txt) ==
    IF Unwrap(rule.spec.redaction).method = "replace"
    THEN txt = Unwrap(rule.spec.redaction).new_value.s
    ELSE \A i \in 1..Len(txt) : txt[i] = Unwrap(rule.spec.redaction).mask_char

\* C15: after a string node is rewritten by several pattern rules of one
\* application, its remarks are in increasing order of their position in
\* the output string, there is exactly one ranged remark per replacement
\* made, and the range of each remark delimits exactly the replacement text
\* that its rule produced in the output string.
C15_OneRemarkPerReplacement ==
    (pc = "done" /\ Len(LoopRules) >= 2) =>
        /\ \A i \in 1..Len(processed.meta.remarks) : IsSome(processed.meta.remarks[i].range)
        /\ \A i \in 1..(Len(processed.meta.remarks) - 1) :
              RangeTo(processed.meta.remarks[i]) <= RangeFrom(processed.meta.remarks[i + 1])
        /\ Len(RemarksOf(processed.meta.remarks, "earlier")) = Len(node.meta.remarks)
        /\ \A i \in 1..Len(LoopRules) :
              /\ Len(RemarksOf(processed.meta.remarks, LoopRules[i].id))
                    = MadeBy(LoopRules[i].id, 1)
              /\ \A j \in 1..Len(processed.meta.remarks) :
                    processed.meta.remarks[j].note.rule_id = LoopRules[i].id =>
                        ProducedByRule(LoopRules[i],
                                       Slice(Unwrap(processed.value).s,
                                             RangeFrom(processed.meta.remarks[j]),
                                             RangeTo(processed.meta.remarks[j])))

----------------------------------------------------------------------------
(* Claims about the threads *)

\* C16: a constructed processor is read-only: no step of the processing
\* modifies its application table, so when two strings are processed
\* concurrently through the one processor, under every interleaving each
\* result is the result of processing that string alone.
C16_SharedProcessorReadOnly ==
    [][/\ processor' = processor
       /\ \A w \in WorkerIds :
             workers'[w].pc = "done" =>
                 workers'[w].result =
                     process_string(processor.applications, workers'[w].node, node_info)]_vars

\* one thread is between two rules while the other has returned a rewritten
\* string
C16_Witness ==
    /\ pc = "workers"
    /\ workers["w1"].pc = "rules"
    /\ workers["w1"].next_rule = 2
    /\ workers["w1"].chunks # chunks_from_str(Unwrap(workers["w1"].node.value).s, DefaultMeta)
    /\ workers["w2"].pc = "done"
    /\ workers["w2"].node # workers["w1"].node
    /\ workers["w2"].result.value # workers["w2"].node.value

----------------------------------------------------------------------------
(* pii_process_value as a state machine, one step per rule of the          *)
(* application, followed by the match of the caller on what it returned    *)
(* (processor.rs:203-206 for a primitive, 230-239 for a string).           *)

\* one rule of every RuleType, the removing ones with every Redaction
ValueRuleSpecs ==
    [mask_a      |-> UserRules.mask_a,
     email       |-> RuleSpec(PlainType("Email"),
                              Some(ReplaceWith(StringValue(<<"[", "e", "]">>))), None),
     ipv4        |-> RuleSpec(PlainType("Ipv4"), None, None),
     ipv6        |-> RuleSpec(PlainType("Ipv6"), Some(HashWith("HMAC-SHA1", <<"k">>)), None),
     ip          |-> RuleSpec(PlainType("Ip"), None, Some("ip")),
     creditcard  |-> RuleSpec(PlainType("Creditcard"), Some(MaskAll), None),
     remove_ip   |-> UserRules.remove_ip,
     remove_hash |-> UserRules.remove_hash,
     remove_mask |-> UserRules.remove_mask,
     replace_u64 |-> UserRules.replace_u64,
     remove_foo  |-> UserRules.remove_foo]

ValueRuleLists ==
    {[i \in 1..Len(ids) |-> Rule(ids[i], ValueRuleSpecs[ids[i]])] :
        ids \in SeqsUpTo(DOMAIN ValueRuleSpecs, MaxRules)}

\* the values that reach pii_process_value: the primitives, and a string
\* that no pattern rule of the application matches
ValueNodes ==
    {Annotated(Some(v), m) :
        v \in {ScalarValue("Bool", 1), ScalarValue("U64", 42), ScalarValue("F64", 42),
               StringValue(<<"b", WIDE>>)},
        m \in {DefaultMeta, Path_foo, Meta(<<Remark(EarlierNote)>>, << >>, None, None)}}

InitValue ==
    /\ MaskIdle
    /\ LookupIdle
    /\ WorkersIdle
    /\ ChunksIdle
    /\ TraversalIdle
    /\ ConfigIdle
    /\ pc = "value"
    /\ processor \in {[applications |-> [k \in {"freeform"} |-> rules]] :
                         rules \in ValueRuleLists}
    /\ node \in ValueNodes
    /\ node_info \in {ValueInfo(Some(k), None) : k \in {"freeform", "ip"}}
    /\ processed = Processed(node, FALSE)
    /\ reprocessed = NotProcessed
    /\ next_rule = 1
    /\ any_replaced = FALSE
    /\ searched = << >>
    /\ rule_input = << >>

\* self.applications.get(&kind) of rule.rs:550
ValueLoopRules == RulesOf(processor.applications, Unwrap(node_info.pii_kind))

\* `value` of the loop
LoopValue == Annotated(processed.value, processed.meta)

\* the loop goes on to the next rule after an Ok as after an Err
TryValueRule_goes_on ==
    /\ pc = "value"
    /\ next_rule <= Len(ValueLoopRules)
    /\ processed' = Processed(process_value(ValueLoopRules[next_rule], LoopValue).annotated,
                              FALSE)
    /\ pc' = "value"
    /\ next_rule' = next_rule + 1
    /\ UNCHANGED <<chunkVars, processor, node, node_info, reprocessed, traversalVars,
                   configVars, any_replaced, searched, rule_input, workers, maskVars,
                   lookup>>

\* rule.rs:551-556: one turn of `for rule in rules`
TryValueRule ==
    /\ pc = "value"
    /\ next_rule <= Len(ValueLoopRules)
    /\ LET r == process_value(ValueLoopRules[next_rule], LoopValue)
       IN  /\ processed' = Processed(r.annotated, FALSE)
           /\ pc' = IF r.ok THEN "value_ok" ELSE "value"
    /\ next_rule' = next_rule + 1
    /\ UNCHANGED <<chunkVars, processor, node, node_info, reprocessed, traversalVars,
                   configVars, any_replaced, searched, rule_input, workers, maskVars,
                   lookup>>

\* rule.rs:558: the rules are used up (or the kind has none), `value` is returned
ValueFellThrough ==
    /\ pc = "value"
    /\ next_rule > Len(ValueLoopRules)
    /\ pc' = "value_err"
    /\ UNCHANGED <<chunkVars, nodeVars, traversalVars, configVars, ruleVars, workers,
                   maskVars, lookup>>

\* processor.rs:203-206 and 230-239: the caller keeps a value of the variant
\* it handed in
CallerKeepsVariant ==
    /\ pc \in {"value_ok", "value_err"}
    /\ processed' =
          Processed(IF IsString(node)
                    THEN FallbackResult(LoopValue, ByteLen(Unwrap(node.value).s))
                    ELSE KeepVariant(Unwrap(node.value).ty, LoopValue),
                    FALSE)
    /\ pc' = IF pc = "value_ok" THEN "replaced_value" ELSE "kept_value"
    /\ UNCHANGED <<chunkVars, processor, node, node_info, reprocessed, traversalVars,
                   configVars, ruleVars, workers, maskVars, lookup>>

NextValue == TryValueRule \/ ValueFellThrough \/ CallerKeepsVariant

SpecValue == InitValue /\ [][NextValue]_vars

----------------------------------------------------------------------------
(* Claims about the value path *)

\* the stepwise loop returns what pii_process_value returns in one go
StepwiseIsPiiProcessValue ==
    pc \in {"value_ok", "value_err"} =>
        LoopValue = pii_process_value(processor.applications, node,
                                      Unwrap(node_info.pii_kind))

PatternTags == {"Pattern", "Email", "Ipv4", "Ipv6", "Ip", "Creditcard"}

OnlyPatternRules ==
    \A i \in 1..Len(ValueLoopRules) : ValueLoopRules[i].spec.ty.tag \in PatternTags

\* C22: a rule of type Pattern, Email, Ipv4, Ipv6, Ip or Creditcard never
\* returns Ok from process_value and hands the value back as it was, so a
\* bool, integer or float whose application holds only such rules comes
\* back with the value and the meta of the input.
C22_PatternRulesLeaveScalars ==
    /\ pc = "value_ok" => ValueLoopRules[next_rule - 1].spec.ty.tag \notin PatternTags
    /\ (pc = "value" /\ next_rule > 1
            /\ ValueLoopRules[next_rule - 1].spec.ty.tag \in PatternTags) =>
           processed = Processed(node, FALSE)
    /\ (pc \in {"replaced_value", "kept_value"} /\ ~IsString(node) /\ OnlyPatternRules) =>
           /\ pc = "kept_value"
           /\ processed = Processed(node, FALSE)

C22_Witness ==
    /\ pc = "kept_value"
    /\ Unwrap(node.value).ty = "U64"
    /\ node.meta.remarks # << >>
    /\ Len(ValueLoopRules) = 2
    /\ ValueLoopRules[1].spec.ty.tag = "Ip"
    /\ ValueLoopRules[2].spec.ty.tag = "Creditcard"
    /\ IsSome(ValueLoopRules[2].spec.redaction)

\* the remarks of the meta m that the node did not hold
NewRemarks(m) ==
    {i \in 1..Len(m.remarks) :
        \A j \in 1..Len(node.meta.remarks) : m.remarks[i] # node.meta.remarks[j]}

\* C23: pii_process_value tries the rules of the kind in list order, hands
\* the unchanged value to the next rule after each Err and returns at the
\* first Ok: the result is the replacement of the first rule that accepts
\* the input, no rule after it is applied, and at most one remark is new.
C23_FirstAcceptingRuleWins ==
    /\ pc = "value" => processed = Processed(node, FALSE)
    /\ pc = "value_ok" =>
          /\ \A j \in 1..(next_rule - 2) : ~process_value(ValueLoopRules[j], node).ok
          /\ process_value(ValueLoopRules[next_rule - 1], node).ok
          /\ processed = Processed(replace_value(ValueLoopRules[next_rule - 1], node), FALSE)
          /\ Cardinality(NewRemarks(processed.meta)) <= 1
          /\ Len(processed.meta.remarks) <= Len(node.meta.remarks) + 1
    /\ pc = "value_err" =>
          /\ next_rule = Len(ValueLoopRules) + 1
          /\ \A j \in 1..Len(ValueLoopRules) : ~process_value(ValueLoopRules[j], node).ok
          /\ processed = Processed(node, FALSE)

\* the first of two rules that both accept the value has replaced it
C23_Witness ==
    /\ pc = "value_ok"
    /\ next_rule = 2
    /\ Len(ValueLoopRules) = 2
    /\ process_value(ValueLoopRules[2], node).ok
    /\ replace_value(ValueLoopRules[2], node) # replace_value(ValueLoopRules[1], node)
    /\ LoopValue = replace_value(ValueLoopRules[1], node)
    /\ Cardinality(NewRemarks(processed.meta)) = 1

----------------------------------------------------------------------------
(* Redaction::Mask on one target as a state machine: in_range resolves the *)
(* range against text.len(), then the chars of the target are masked.  An  *)
(* i32 multiplication that overflows panics in a build with overflow       *)
(* checks (debug) and wraps in a build without them (release).             *)

\* i32::MIN
I32_MIN == (0 - 2147483647) - 1

\* Option<i32> of a range: none, i32::MIN, and the indexes around the lengths
RangeIndexes ==
    {None, Some(I32_MIN)} \cup {Some(k) : k \in (0 - (MaxStr + 1))..(MaxStr + 1)}

MaskTexts == SeqsUpTo({"a", "-", WIDE}, MaxStr)

Masks ==
    {MaskWith("*", ignored, <<from, to>>) :
        ignored \in {{}, {"-"}}, from \in RangeIndexes, to \in RangeIndexes}

InitMask ==
    /\ LookupIdle
    /\ RulesIdle
    /\ WorkersIdle
    /\ NodeIdle
    /\ TraversalIdle
    /\ ConfigIdle
    /\ pc = "mask"
    /\ text \in MaskTexts
    /\ meta = DefaultMeta
    /\ chunks = << >>
    /\ joined = NotJoined
    /\ mask \in Masks
    /\ build \in {"debug", "release"}
    /\ range_index = NoRangeIndex

\* (idx * -1) of rule.rs:169 does not fit an i32
NegationOverflows(idx) == IsSome(idx) /\ Unwrap(idx) = I32_MIN

\* rule.rs:174-175 at the first char of the target: the start and the end
\* that in_range computes from `range` and text.len()
ResolveRange ==
    /\ pc = "mask"
    /\ text # << >>
    /\ range_index' =
          [start |-> get_range_index(mask.range[1], ByteLen(text), 0),
           end   |-> get_range_index(mask.range[2], ByteLen(text), ByteLen(text)),
           panic |-> /\ build = "debug"
                     /\ NegationOverflows(mask.range[1]) \/ NegationOverflows(mask.range[2])]
    /\ pc' = IF range_index'.panic THEN "mask_panicked" ELSE "resolved"
    /\ UNCHANGED <<chunkVars, nodeVars, traversalVars, configVars, ruleVars, workers,
                   mask, build, lookup>>

\* rule.rs:187-198: the loop over text.chars() and the push of the chunk
MaskChars ==
    /\ pc = "resolved" \/ (pc = "mask" /\ text = << >>)
    /\ chunks' = Append(chunks, redaction_insert_replacement_chunks(mask, text, ChunkNote))
    /\ pc' = "masked"
    /\ UNCHANGED <<text, meta, joined, nodeVars, traversalVars, configVars, ruleVars,
                   workers, maskVars, lookup>>

NextMask == ResolveRange \/ MaskChars

SpecMask == InitMask /\ [][NextMask]_vars

----------------------------------------------------------------------------
(* Claims about Mask *)

\* resolve of the range semantics: None is the default, a negative k is
\* max(0, n + k), any other k is min(k, n)
Resolve(idx, n, default) ==
    IF idx = None THEN default
    ELSE IF Unwrap(idx) < 0
         THEN (IF n + Unwrap(idx) > 0 THEN n + Unwrap(idx) ELSE 0)
         ELSE (IF Unwrap(idx) < n THEN Unwrap(idx) ELSE n)

\* C24: Mask turns a target of n chars into one Redaction chunk of n chars
\* in which the char of index i is mask_char iff start_idx <= i < end_idx
\* (the range resolved on the n chars, not on the bytes) and the char is
\* not in chars_to_ignore, every other char being kept; a mask of pure
\* ASCII text leaves the byte length as it was.
C24_MaskByCharIndex ==
    pc = "masked" =>
        LET n == Len(text)
            start_idx == Resolve(mask.range[1], n, 0)
            end_idx == Resolve(mask.range[2], n, n)
        IN  /\ Len(chunks) = 1
            /\ chunks[1].kind = "Redaction"
            /\ Len(chunks[1].text) = n
            /\ \A i \in 1..n :
                  chunks[1].text[i] =
                      IF start_idx <= i - 1 /\ i - 1 < end_idx
                             /\ text[i] \notin mask.chars_to_ignore
                      THEN mask.mask_char
                      ELSE text[i]
            /\ (\A i \in 1..n : Width(text[i]) = 1) =>
                   ByteLen(chunks[1].text) = ByteLen(text)

\* C25: for the target length n that in_range is handed and every i32 index
\* k, None resolves to the default (0 for the start, n for the end), a
\* negative k to max(0, n + k), any other k to min(k, n), without overflow
\* also for k = -2^31; a start that is not below the end masks nothing.
C25_RangeResolution ==
    pc # "mask" =>
        /\ pc # "mask_panicked"
        /\ text # << >> =>
              /\ range_index.start = Resolve(mask.range[1], ByteLen(text), 0)
              /\ range_index.end = Resolve(mask.range[2], ByteLen(text), ByteLen(text))
        /\ (pc = "masked" /\ range_index.start >= range_index.end) =>
               chunks[1].text = text

----------------------------------------------------------------------------
(* process_chunks of an Ip rule as a state machine: the call with the IPv4 *)
(* detector, then the call with the IPv6 detector on what it returned.     *)

DetectChars == {"1", ".", ":"}

\* the texts of the chunks: short ones, and three that hold an address of
\* each kind
DetectTexts ==
    SeqsUpTo(DetectChars, MaxScan)
        \cup {<<"1", ".", "1", ":", "1">>, <<"1", ":", "1", ".", "1">>,
              <<"1", ".", "1", " ", "1", ":", "1">>}

\* one Text chunk, or a Redaction chunk of an earlier rule between two
DetectChunks ==
    {<<TextChunk(str)>> : str \in DetectTexts}
        \cup {<<TextChunk(a), RedactionChunk(t, EarlierNote), TextChunk(b)>> :
                 a \in SeqsUpTo(DetectChars, MaxScan),
                 b \in {<< >>, <<".", "1">>, <<":", "1">>, <<"1", ":", "1">>},
                 t \in {<< >>, <<"1">>}}

\* the Ip rule with every kind of redaction, one of them made of a digit
IpRules ==
    {Rule("@ip", RuleSpec(PlainType("Ip"), redaction, None)) :
        redaction \in {None, Some(MaskAll), Some(HashWith("HMAC-SHA1", <<"k">>)),
                       Some(ReplaceWith(StringValue(<<"[", "i", "p", "]">>))),
                       Some(ReplaceWith(StringValue(<<"9">>)))}}

InitDetect ==
    /\ MaskIdle
    /\ LookupIdle
    /\ WorkersIdle
    /\ TraversalIdle
    /\ ConfigIdle
    /\ pc = "ip"
    /\ processor \in {[applications |-> [k \in {"ip"} |-> <<rule>>]] : rule \in IpRules}
    /\ node = Annotated(None, DefaultMeta)
    /\ node_info = ValueInfo(Some("ip"), None)
    /\ processed = NotProcessed
    /\ reprocessed = NotProcessed
    /\ text = << >>
    /\ meta = DefaultMeta
    /\ chunks \in DetectChunks
    /\ joined = NotJoined
    /\ rule_input = chunks
    /\ searched = << >>
    /\ next_rule = 1
    /\ any_replaced = FALSE

\* the rule whose process_chunks runs
IpRule == processor.applications["ip"][1]

\* rule.rs:345-346: the call with IPV4_REGEX
DetectIpv4 ==
    /\ pc = "ip"
    /\ LET v4 == apply_regex_to_chunks(IpRule, chunks, meta, RegexOf(IpRule.spec.ty), None)
       IN  /\ chunks' = v4.chunks
           /\ meta' = v4.meta
           /\ pc' = IF v4.panic THEN "panicked" ELSE "ipv4_done"
    /\ searched' = SearchString(chunks)
    /\ UNCHANGED <<text, joined, nodeVars, traversalVars, configVars, next_rule,
                   any_replaced, rule_input, workers, maskVars, lookup>>

\* rule.rs:347-349: the call with IPV6_REGEX, and Ok((chunks, meta))
DetectIpv6 ==
    /\ pc = "ipv4_done"
    /\ LET v6 == Ipv6Pass(IpRule, ChunksResult(chunks, meta, FALSE))
       IN  /\ chunks' = v6.chunks
           /\ meta' = v6.meta
           /\ pc' = IF v6.panic THEN "panicked" ELSE "ip_done"
    /\ searched' = SearchString(chunks)
    /\ any_replaced' = TRUE
    /\ UNCHANGED <<text, joined, nodeVars, traversalVars, configVars, next_rule,
                   rule_input, workers, maskVars, lookup>>

NextDetect == DetectIpv4 \/ DetectIpv6

SpecDetect == InitDetect /\ [][NextDetect]_vars

----------------------------------------------------------------------------
(* Claims about the Ip rule *)

\* the rule with its own id, redaction and note, and another detector type
WithType(rule, tag) ==
    Rule(rule.id, RuleSpec(PlainType(tag), rule.spec.redaction, rule.spec.note))

\* the addresses the IPv4 detector finds in the search string of the input
Ipv4Targets ==
    TargetsOfMatches(CapturesIter(IPV4_REGEX, SearchString(rule_input), 1), None, 1)

\* C26: process_chunks of an Ip rule returns Ok with the chunks that an
\* Ipv4 rule followed by an Ipv6 rule on its result return, both with the
\* id and the redaction of the Ip rule; the IPv6 detector sees one NUL in
\* the place of every address the IPv4 detector replaced.
C26_IpIsIpv4ThenIpv6 ==
    /\ pc # "panicked"
    /\ pc = "ip_done" =>
          LET v4 == process_chunks(WithType(IpRule, "Ipv4"), rule_input, DefaultMeta)
              v6 == process_chunks(WithType(IpRule, "Ipv6"), v4.chunks, v4.meta)
              ip == process_chunks(IpRule, rule_input, DefaultMeta)
          IN  /\ ip.ok /\ v4.ok /\ v6.ok
              /\ ip.chunks = v6.chunks /\ ip.meta = v6.meta
              /\ chunks = v6.chunks /\ meta = v6.meta
              /\ searched = SearchString(v4.chunks)
              /\ searched = TargetsAsNul(SearchString(rule_input), Ipv4Targets, 1, 0)

\* an IPv4 address and an IPv6 address were both replaced, by a digit each,
\* next to an earlier redaction
C26_Witness ==
    /\ pc = "ip_done"
    /\ Len(rule_input) = 3
    /\ Ipv4Targets # << >>
    /\ Len(ReplacementChunks(chunks)) = 3
    /\ \E i \in 1..Len(chunks) :
          chunks[i].kind = "Redaction" /\ chunks[i].text = <<"9">> /\ chunks[i].note.rule_id = "@ip"
    /\ Len(SelectSeq(searched, LAMBDA c : c = NUL)) = 2

----------------------------------------------------------------------------
(* The resolution of the ids of an application through the built-in        *)
(* catalog as a state machine: an id is looked up, an alias is followed to *)
(* its target, and a rule of its own ends the chase.                       *)

\* the applications that name catalog ids only
CatalogApplications == SeqsUpTo(DOMAIN BUILTIN_RULES, MaxApplications)

\* Lookup { ids, pos, at, seen, resolved }: the id at the position pos is
\* being resolved, the chase is at `at` and went through `seen`
Lookup(ids, pos, at, seen, resolved) ==
    [ids |-> ids, pos |-> pos, at |-> at, seen |-> seen, resolved |-> resolved]

InitCatalog ==
    /\ MaskIdle
    /\ RulesIdle
    /\ WorkersIdle
    /\ ChunksIdle
    /\ NodeIdle
    /\ TraversalIdle
    /\ ConfigIdle
    /\ pc = "catalog"
    /\ lookup \in {Lookup(ids, 1, None, {}, << >>) : ids \in CatalogApplications}

\* the next id of the application is looked up in the catalog
LookupId ==
    /\ pc = "catalog"
    /\ lookup.at = None
    /\ lookup.pos <= Len(lookup.ids)
    /\ lookup' = [lookup EXCEPT !.at = Some(lookup.ids[lookup.pos]), !.seen = {}]
    /\ pc' = IF lookup.ids[lookup.pos] \in DOMAIN BUILTIN_RULES
             THEN "catalog" ELSE "bad_reference"
    /\ UNCHANGED <<chunkVars, nodeVars, traversalVars, configVars, ruleVars, workers,
                   maskVars>>

\* the entry is an alias: the chase goes on at its target
FollowAlias ==
    /\ pc = "catalog"
    /\ IsSome(lookup.at)
    /\ IsSome(BUILTIN_RULES[Unwrap(lookup.at)].alias)
    /\ lookup' = [lookup EXCEPT !.at = BUILTIN_RULES[Unwrap(lookup.at)].alias,
                                !.seen = lookup.seen \cup {Unwrap(lookup.at)}]
    /\ pc' = IF Unwrap(BUILTIN_RULES[Unwrap(lookup.at)].alias) \in DOMAIN BUILTIN_RULES
             THEN "catalog" ELSE "bad_reference"
    /\ UNCHANGED <<chunkVars, nodeVars, traversalVars, configVars, ruleVars, workers,
                   maskVars>>

\* the entry is a rule of its own: the id is resolved to it
RuleFound ==
    /\ pc = "catalog"
    /\ IsSome(lookup.at)
    /\ BUILTIN_RULES[Unwrap(lookup.at)].alias = None
    /\ lookup' = [lookup EXCEPT !.at = None, !.pos = lookup.pos + 1,
                                !.resolved = Append(lookup.resolved, Unwrap(lookup.at))]
    /\ pc' = "catalog"
    /\ UNCHANGED <<chunkVars, nodeVars, traversalVars, configVars, ruleVars, workers,
                   maskVars>>

\* every id of the application is resolved
CatalogDone ==
    /\ pc = "catalog"
    /\ lookup.at = None
    /\ lookup.pos > Len(lookup.ids)
    /\ pc' = "catalog_done"
    /\ UNCHANGED <<chunkVars, nodeVars, traversalVars, configVars, ruleVars, workers,
                   maskVars, lookup>>

NextCatalog == LookupId \/ FollowAlias \/ RuleFound \/ CatalogDone

SpecCatalog == InitCatalog /\ [][NextCatalog]_vars

\* the resolution is not abandoned midway
SpecCatalogFair == SpecCatalog /\ WF_vars(NextCatalog)

----------------------------------------------------------------------------
(* Claims about the catalog *)

\* the aliases of the catalog and their targets
CatalogAliases == {id \in DOMAIN BUILTIN_RULES : IsSome(BUILTIN_RULES[id].alias)}

\* the rule an id of the catalog stands for, as the catalog is documented
DocumentedTarget(id) ==
    CASE id = "@ip" -> "@ip:replace"
      [] id = "@email" -> "@email:replace"
      [] id = "@creditcard" -> "@creditcard:mask"
      [] OTHER -> id

AliasesAsDocumented ==
    /\ CatalogAliases = {"@ip", "@email", "@creditcard"}
    /\ \A id \in CatalogAliases :
          /\ Unwrap(BUILTIN_RULES[id].alias) = DocumentedTarget(id)
          /\ Unwrap(BUILTIN_RULES[id].alias) \in DOMAIN BUILTIN_RULES

\* no chase comes back to an id it went through, none leaves the catalog,
\* and an id is resolved to a rule that is no alias
ChaseIsSound ==
    /\ pc # "bad_reference"
    /\ IsSome(lookup.at) => Unwrap(lookup.at) \notin lookup.seen
    /\ \A i \in 1..Len(lookup.resolved) :
          /\ lookup.resolved[i] = DocumentedTarget(lookup.ids[i])
          /\ BUILTIN_RULES[lookup.resolved[i]].alias = None

\* C27: in the built-in catalog `@ip` stands for `@ip:replace`, `@email` for
\* `@email:replace` and `@creditcard` for `@creditcard:mask`; every alias
\* target is an id of the catalog, no chase of aliases visits an id twice,
\* and the chase from every catalog id ends at a rule that is no alias.
C27_AliasesResolve ==
    /\ [](AliasesAsDocumented /\ ChaseIsSound)
    /\ <>(pc = "catalog_done" /\ Len(lookup.resolved) = Len(lookup.ids))

C27_Witness ==
    /\ pc = "catalog_done"
    /\ lookup.ids = <<"@creditcard", "@ip">>
    /\ lookup.resolved = <<"@creditcard:mask", "@ip:replace">>

====
